---- MODULE Spec2Model ----
(***************************************************************************)
(* A model of loglm_collector's real-time scout (collectors/scout.py:      *)
(* LogScout, its session thread and its watcher threads) and of the rule   *)
(* resolution of templates/store.py.                                       *)
(*                                                                         *)
(* Text is a sequence of tokens: a word of a line is one token, "NL" is    *)
(* the line terminator.  Strings that are compared letter by letter (rule  *)
(* conditions) are sequences of one-letter strings.                        *)
(***************************************************************************)
EXTENDS Integers, Sequences, FiniteSets, TLC

\* ---------------------------------------------------------------- bounds
NumFiles == 1
MaxLines == 2
MaxDuration == 2
MaxStopCalls == 2
MaxFileLen == 3
MaxRules == 2
MaxWords == 2
MaxEntries == 2
MaxRuns == 2
MaxHits == 3
MaxNames == 2
MaxPaths == 2
MaxHours == 2

\* ------------------------------------------------------ program constants
JoinTimeout == 2

Journal == 1
Watchers == 1..(1 + NumFiles)
FileWatchers == Watchers \ {Journal}
NoOwner == 0
NoKeyword == "none"

VARIABLES
  \* LogScout fields
  duration, stop, hits, lock, onHit,
  \* the session thread (LogScout.run): position, loop index, threads, result
  spc, idx, nfiles, waitDeadline, joinDeadline, report,
  \* the watcher threads: position, line read, hit under construction,
  \* copy of the list during the append, read offset of the file handle
  wpc, wline, whit, wtmp, wpos,
  \* the environment: watched files, journalctl's pipe and process
  file, pipe, proc, procSigs, nwritten,
  \* the host and the caller: is journalctl installed, the number of eligible
  \* files in log_dir, is an on_hit callback passed to run
  journalPresent, ndirfiles, onHitArg,
  \* the host: the entries of log_dir and below, can log_dir be listed;
  \* history: the lines appended to a file while its watcher polled and before stop
  dirents, rootOk, due,
  \* the wall clock
  now,
  \* history: lines matched, lines matched before stop was set, stop() calls
  \* since the last clear, time of the first stop() during the wait, return time,
  \* the pieces of a file handed to the classifier
  nmatch, obs, stopCalls, stopAt, returnAt, frags,
  \* history: per watcher, the offset its seek reached and the lines it read and
  \* the sleeps it began while the stop signal was set; the calls of run so far
  whist, runs,
  \* the file handle of each file watcher: none, open or closed
  fh,
  \* history: stop() was called while the current call of run was under way
  stopReq,
  \* rule resolution: the template's rules, the entry, the returned instruction
  rules, entry, result, rpc,
  \* calls of the pure functions: is a template passed, the line, the results
  \* of InstructionRule.matches per rule, of entry_to_loglm, of _parse_level, of
  \* LogScout._matches and of _discover_log_files, and the functions called so far
  hasTemplate, callLine, ruleMatched, loglm, parsedLevel, matchedKeyword, discovered, called,
  \* calls of the library functions: the result of ScoutResult.sources
  grouped,
  \* TemplateStore: the templates in memory, the templates file, and history:
  \* the last call with its argument and what it returned
  templates, disk, lastOp,
  \* the levels the general, gpu and nas collectors give callLine
  levels,
  \* CustomSourceCollector: the source, the files its glob names in sorted
  \* order, and what _collect_source did
  csrc, cfiles, centries

sessVars == <<duration, onHit, spc, idx, nfiles, waitDeadline, joinDeadline, report, returnAt>>
sharedVars == <<stop, hits, lock>>
watcherVars == <<wpc, wline, whit, wtmp, wpos, nmatch, obs, frags, whist, fh>>
envVars ==
  <<file, pipe, proc, procSigs, nwritten, journalPresent, ndirfiles, onHitArg, dirents, rootOk, due>>
stopVars == <<stopCalls, stopAt, runs, stopReq>>
resolveVars == <<rules, entry, result, rpc>>
callVars ==
  <<hasTemplate, callLine, ruleMatched, loglm, parsedLevel, matchedKeyword, discovered, called>>
customVars == <<levels, csrc, cfiles, centries>>
libVars == <<grouped, templates, disk, lastOp, customVars>>
vars == <<sessVars, sharedVars, watcherVars, envVars, stopVars, now, resolveVars, callVars, libVars>>

\* ------------------------------------------------------------ classifier
\* A line is the sequence of its words, the maximal runs of word characters
\* that the \b of the patterns delimit, and of the line terminator "NL".
\* The alternatives of _ERROR_RE, each with and without its optional ending
KeywordTokens ==
  {"emerg", "alert", "crit", "critical", "err", "error", "fail", "failed", "failure",
   "panic", "oops", "oom", "segfault", "timeout", "refused", "denied"}

\* The alternatives of general._LEVEL_RE
LevelTokens == {"emerg", "alert", "crit", "err", "warning", "notice", "info", "debug"}

\* str.lower() of a word
Lower(t) ==
  CASE t = "ERR" -> "err"
    [] t = "CRIT" -> "crit"
    [] t = "ERROR" -> "error"
    [] t = "Failed" -> "failed"
    [] t = "Warning" -> "warning"
    [] t = "WARN" -> "warn"
    [] t = "DEBUG" -> "debug"
    [] t = "A" -> "a"
    [] t = "B" -> "b"
    [] t = "G" -> "g"
    [] OTHER -> t

\* _ERROR_RE.search(line): the index of the leftmost keyword of the line, 0 if none
FirstKeywordIndex(line) ==
  LET K == {i \in DOMAIN line : Lower(line[i]) \in KeywordTokens}
  IN IF K = {} THEN 0 ELSE CHOOSE i \in K : \A j \in K : i <= j

\* The search run from the end of the line: the index of the rightmost keyword
LastKeywordIndex(line) ==
  LET K == {i \in DOMAIN line : Lower(line[i]) \in KeywordTokens}
  IN IF K = {} THEN 0 ELSE CHOOSE i \in K : \A j \in K : i >= j

MatchesRightmost(line) ==
  IF LastKeywordIndex(line) = 0 THEN NoKeyword
  ELSE Lower(line[LastKeywordIndex(line)])

\* LogScout._matches
Matches(line) ==
  IF FirstKeywordIndex(line) = 0 THEN NoKeyword
  ELSE Lower(line[FirstKeywordIndex(line)])

\* _LEVEL_RE.search(line): the index of the leftmost level word of the line, 0 if none
FirstLevelIndex(line) ==
  LET K == {i \in DOMAIN line : Lower(line[i]) \in LevelTokens}
  IN IF K = {} THEN 0 ELSE CHOOSE i \in K : \A j \in K : i <= j

\* The level word as it stands in the line
ParseLevelVerbatim(line) ==
  IF FirstLevelIndex(line) = 0 THEN "info" ELSE line[FirstLevelIndex(line)]

\* general._parse_level
ParseLevel(line) ==
  IF FirstLevelIndex(line) = 0 THEN "info" ELSE Lower(line[FirstLevelIndex(line)])

\* The alternatives of gpu._LEVEL_RE
GpuLevelTokens == {"emerg", "alert", "crit", "err", "warning", "notice", "info", "debug"}

\* gpu._LEVEL_RE.search(line): the index of the leftmost level word, 0 if none
GpuFirstLevelIndex(line) ==
  LET K == {i \in DOMAIN line : Lower(line[i]) \in GpuLevelTokens}
  IN IF K = {} THEN 0 ELSE CHOOSE i \in K : \A j \in K : i <= j

\* gpu._parse_level
GpuParseLevel(line) ==
  IF GpuFirstLevelIndex(line) = 0 THEN "info" ELSE Lower(line[GpuFirstLevelIndex(line)])

\* A level pattern that spells the warning level "warn"
LevelTokensWarn == {"emerg", "alert", "crit", "err", "warn", "notice", "info", "debug"}

\* The alternatives of nas._LEVEL_RE
NasLevelTokens == {"emerg", "alert", "crit", "err", "warning", "notice", "info", "debug"}

\* nas._LEVEL_RE.search(line): the index of the leftmost level word, 0 if none
NasFirstLevelIndex(line) ==
  LET K == {i \in DOMAIN line : Lower(line[i]) \in NasLevelTokens}
  IN IF K = {} THEN 0 ELSE CHOOSE i \in K : \A j \in K : i <= j

\* nas._parse_level
NasParseLevel(line) ==
  IF NasFirstLevelIndex(line) = 0 THEN "info" ELSE Lower(line[NasFirstLevelIndex(line)])

\* str.lower() of a string given letter by letter
LowerStr(str) == [i \in DOMAIN str |-> Lower(str[i])]

\* str.strip() of a line read by readline
Strip(line) == SelectSeq(line, LAMBDA t : t # "NL")

\* ScoutHit(source, line.strip(), keyword), timestamp = now; seq numbers the
\* _record calls of one watcher
ScoutHit(w, line, kw, k) ==
  [source |-> w, line |-> Strip(line), keyword |-> kw, timestamp |-> now, seq |-> k]

NoHit == [source |-> 0, line |-> <<>>, keyword |-> NoKeyword, timestamp |-> 0, seq |-> 0]

\* -------------------------------------------------------------- discovery
\* A file name is the sequence of its pieces, the extension last; an entry of
\* the directory tree has a name, the directory it lies in ("root" is log_dir),
\* what is_file() and os.access(R_OK) say of it and how reading its first
\* characters as text ends
SkipSuffixes == {".gz", ".xz", ".bz2", ".zst", ".1", ".2", ".3", ".4"}
SkipNames == {<<"btmp">>, <<"wtmp">>, <<"lastlog">>, <<"faillog">>}

\* name.endswith(suffix)
EndsWith(name, suffix) == Len(name) > 0 /\ name[Len(name)] = suffix

\* os.scandir(log_dir): the direct children of log_dir
Scandir(d) == {e \in d : e.parent = "root"}

\* entry.path
Path(e) == [dir |-> e.parent, name |-> e.name]

\* The body of the loop of _discover_log_files: is the entry appended to results
Eligible(e) ==
  IF ~e.isFile THEN FALSE
  ELSE IF e.name \in SkipNames THEN FALSE
  ELSE IF \E sfx \in SkipSuffixes : EndsWith(e.name, sfx) THEN FALSE
  ELSE IF ~e.readable THEN FALSE
  ELSE e.probe = "ok"

\* The discovery without its except clause: the OSError of scandir leaves the call
DiscoverUncaught(d, ok) ==
  IF ~ok THEN [raised |-> TRUE, paths |-> {}]
  ELSE [raised |-> FALSE, paths |-> {Path(e) : e \in {x \in Scandir(d) : Eligible(x)}}]

\* The discovery over the whole tree, as os.walk would list it
DiscoverWalk(d, ok) ==
  IF ~ok THEN [raised |-> FALSE, paths |-> {}]
  ELSE [raised |-> FALSE, paths |-> {Path(e) : e \in {x \in d : Eligible(x)}}]

\* LogScout._discover_log_files: scandir raises OSError when log_dir is missing
\* or cannot be listed, and the except clause leaves the results empty
Discover(d, ok) ==
  IF ~ok THEN [raised |-> FALSE, paths |-> {}]
  ELSE [raised |-> FALSE, paths |-> {Path(e) : e \in {x \in Scandir(d) : Eligible(x)}}]

\* The names of the log files of the sessions
FileNames == <<"syslog", "kern", "auth">>

\* A log_dir with n eligible files, a rotated file and a sub-directory
SampleDir(n) ==
  {[name |-> <<FileNames[i]>>, parent |-> "root", isFile |-> TRUE, readable |-> TRUE,
    probe |-> "ok"] : i \in 1..n}
    \cup {[name |-> <<"syslog", ".1">>, parent |-> "root", isFile |-> TRUE, readable |-> TRUE,
           probe |-> "ok"],
          [name |-> <<"nginx">>, parent |-> "root", isFile |-> FALSE, readable |-> TRUE,
           probe |-> "os_error"],
          [name |-> <<"access">>, parent |-> "nginx", isFile |-> TRUE, readable |-> TRUE,
           probe |-> "ok"]}

\* The host: can log_dir be listed, what lies in it, how many files are eligible
HostDir(ok, n) ==
  /\ rootOk = ok
  /\ dirents = SampleDir(n)
  /\ ndirfiles = Cardinality(Discover(dirents, rootOk).paths)

\* ------------------------------------------------------------- primitives
\* threading.Event.set
EventToggle(e) == ~e
EventSet(e) == TRUE

\* threading.Event.clear
EventClear(e) == FALSE

\* threading.Event.wait(timeout): returns once the event is set or the timeout is over
EventWaitSleeps(e, deadline) == now >= deadline
EventWaitDone(e, deadline) == e \/ now >= deadline

\* Thread.join(timeout): returns once the thread has ended or the timeout is over
JoinWaitsForExit(w, deadline) == wpc[w] = "exited"
JoinDone(w, deadline) == wpc[w] = "exited" \/ now >= deadline

\* threading.Lock.acquire: possible only when nobody holds the lock
LockIgnored(w) == TRUE
LockFree(w) == lock = NoOwner

\* list.append
ListPrepend(l, h) == <<h>> \o l
ListAppend(l, h) == Append(l, h)

\* file.readline() at offset pos: the text up to and including the next line
\* terminator, or up to the end of the file when there is none
LineEnd(text, pos) ==
  LET E == {i \in (pos + 1)..Len(text) : text[i] = "NL"}
  IN IF E = {} THEN Len(text) ELSE CHOOSE i \in E : \A j \in E : i <= j

ReadLine(text, pos) == SubSeq(text, pos + 1, LineEnd(text, pos))

Threads == 1..(1 + nfiles)

\* ------------------------------------------------------------------- Init
ScoutInit ==
  /\ stop = FALSE
  /\ hits = <<>>
  /\ lock = NoOwner
  /\ onHit = FALSE
  /\ spc = "idle"
  /\ idx = 0
  /\ nfiles = 0
  /\ waitDeadline = 0
  /\ joinDeadline = 0
  /\ report = <<>>
  /\ wpc = [w \in Watchers |-> "new"]
  /\ wline = [w \in Watchers |-> <<>>]
  /\ whit = [w \in Watchers |-> NoHit]
  /\ wtmp = [w \in Watchers |-> <<>>]
  /\ wpos = [w \in Watchers |-> 0]
  /\ file = [w \in FileWatchers |-> <<>>]
  /\ pipe = <<>>
  /\ proc = "none"
  /\ procSigs = <<>>
  /\ nwritten = [w \in Watchers |-> 0]
  /\ now = 0
  /\ nmatch = [w \in Watchers |-> 0]
  /\ obs = [w \in Watchers |-> 0]
  /\ stopCalls = 0
  /\ stopAt = -1
  /\ returnAt = -1
  /\ frags = {}
  /\ due = [w \in Watchers |-> 0]
  /\ whist = [w \in Watchers |-> [seekAt |-> 0, lateLines |-> 0, lateSleeps |-> 0]]
  /\ fh = [w \in Watchers |-> "none"]
  /\ runs = 0
  /\ stopReq = FALSE

NoLoglm == [Instruction |-> "", Input |-> <<>>, Response |-> ""]

\* No library function has been called
NoFile == [exists |-> FALSE, doc |-> <<>>]
NoOp == [op |-> "none", arg |-> <<>>, ret |-> FALSE]
NoLevels == [general |-> "", gpu |-> "", nas |-> ""]
NoSource == [name |-> <<>>, path_glob |-> <<>>, filter_pattern |-> <<>>, default_level |-> "info"]

LibIdle ==
  /\ grouped = <<>>
  /\ templates = <<>>
  /\ disk = NoFile
  /\ lastOp = NoOp
  /\ levels = NoLevels
  /\ csrc = NoSource
  /\ cfiles = <<>>
  /\ centries = <<>>

\* No pure function has been called
CallIdle ==
  /\ hasTemplate = FALSE
  /\ callLine = <<>>
  /\ ruleMatched = <<>>
  /\ loglm = NoLoglm
  /\ parsedLevel = ""
  /\ matchedKeyword = ""
  /\ discovered = [raised |-> FALSE, paths |-> {}]
  /\ called = {}
  /\ LibIdle

ResolveIdle ==
  /\ rules = <<>>
  /\ entry = [source |-> <<>>, raw |-> <<>>, level |-> <<>>]
  /\ result = ""
  /\ rpc = "idle"

\* The scout after LogScout(duration) on a host with or without journalctl and
\* with up to NumFiles eligible log files; the logs are quiet
Init ==
  /\ ScoutInit
  /\ ResolveIdle
  /\ CallIdle
  /\ duration \in 1..MaxDuration
  /\ journalPresent \in BOOLEAN
  /\ \E h \in ({TRUE} \X (0..NumFiles)) \cup {<<FALSE, NumFiles>>} : HostDir(h[1], h[2])
  /\ onHitArg = FALSE

\* ------------------------------------------------------ the session thread
\* run, line 74: self._hits.clear()
RunClearHits ==
  /\ spc = "idle"
  /\ hits' = <<>>
  /\ spc' = "reset"
  /\ UNCHANGED <<duration, onHit, idx, nfiles, waitDeadline, joinDeadline, report, returnAt,
                 stop, lock, watcherVars, envVars, stopVars, now, resolveVars, callVars, libVars>>

\* run, lines 75-76: self._stop.clear(); self._on_hit = on_hit
RunReset ==
  /\ spc = "reset"
  /\ stop' = EventClear(stop)
  /\ onHit' = onHitArg
  /\ stopCalls' = 0
  /\ spc' = "discover"
  /\ UNCHANGED <<duration, idx, nfiles, waitDeadline, joinDeadline, report, returnAt,
                 hits, lock, watcherVars, envVars, stopAt, runs, stopReq, now, resolveVars, callVars, libVars>>

\* A loop over the discovered paths that passes over one of them
PathsButOne(P) == IF P = {} THEN P ELSE P \ {CHOOSE x \in P : TRUE}

\* run, line 85: for path in self._discover_log_files(), the paths a thread is made for
PathsTailed(P) == P

\* run, lines 78-87: one thread for the journal, one per discovered path; an
\* exception of the discovery would leave run
RunCreateThreads ==
  /\ spc = "discover"
  /\ LET paths == Discover(dirents, rootOk)
     IN IF paths.raised
          THEN /\ spc' = "raised"
               /\ UNCHANGED <<nfiles, idx>>
          ELSE /\ nfiles' = Cardinality(PathsTailed(paths.paths))
               /\ idx' = 1
               /\ spc' = "start"
  /\ UNCHANGED <<duration, onHit, waitDeadline, joinDeadline, report, returnAt,
                 sharedVars, watcherVars, envVars, stopVars, now, resolveVars, callVars, libVars>>

\* run, lines 89-93: t.start() for each thread in list order, then the wait begins
RunStartThread ==
  /\ spc = "start"
  /\ wpc' = [wpc EXCEPT ![idx] = IF idx = Journal THEN "popen" ELSE "open"]
  /\ IF idx = 1 + nfiles
       THEN /\ spc' = "wait"
            /\ waitDeadline' = now + duration
            /\ idx' = 0
       ELSE /\ idx' = idx + 1
            /\ UNCHANGED <<spc, waitDeadline>>
  /\ UNCHANGED <<duration, onHit, nfiles, joinDeadline, report, returnAt, sharedVars,
                 wline, whit, wtmp, wpos, nmatch, obs, frags, whist, fh, envVars, stopVars, now,
                 resolveVars, callVars, libVars>>

\* run, line 93: self._stop.wait(timeout=self.duration) returns
RunWaitReturn ==
  /\ spc = "wait"
  /\ EventWaitDone(stop, waitDeadline)
  /\ spc' = "setstop"
  /\ UNCHANGED <<duration, onHit, idx, nfiles, waitDeadline, joinDeadline, report, returnAt,
                 sharedVars, watcherVars, envVars, stopVars, now, resolveVars, callVars, libVars>>

\* run, line 94: self._stop.set(); the join loop begins with the first thread
RunSetStop ==
  /\ spc = "setstop"
  /\ stop' = EventSet(stop)
  /\ spc' = "join"
  /\ idx' = 1
  /\ joinDeadline' = now + JoinTimeout
  /\ UNCHANGED <<duration, onHit, nfiles, waitDeadline, report, returnAt, hits, lock,
                 watcherVars, envVars, stopVars, now, resolveVars, callVars, libVars>>

\* run, lines 97-98: t.join(timeout=2) returns; the next thread is joined
RunJoinReturn ==
  /\ spc = "join"
  /\ JoinDone(idx, joinDeadline)
  /\ IF idx = 1 + nfiles
       THEN /\ spc' = "snapshot"
            /\ idx' = 0
            /\ UNCHANGED joinDeadline
       ELSE /\ idx' = idx + 1
            /\ joinDeadline' = now + JoinTimeout
            /\ UNCHANGED spc
  /\ UNCHANGED <<duration, onHit, nfiles, waitDeadline, report, returnAt, sharedVars,
                 watcherVars, envVars, stopVars, now, resolveVars, callVars, libVars>>

\* run, line 100: return ScoutResult(duration, hits=list(self._hits))
RunReturn ==
  /\ spc = "snapshot"
  /\ report' = hits
  /\ returnAt' = now
  /\ spc' = "returned"
  /\ UNCHANGED <<duration, onHit, idx, nfiles, waitDeadline, joinDeadline, sharedVars,
                 watcherVars, envVars, stopVars, now, resolveVars, callVars, libVars>>

\* LogScout.stop, called by any other thread at any time
StopCall ==
  /\ stopCalls < MaxStopCalls
  /\ stop' = EventSet(stop)
  /\ stopCalls' = stopCalls + 1
  /\ stopAt' = IF spc = "wait" /\ stopAt = -1 THEN now ELSE stopAt
  /\ stopReq' = (stopReq \/ spc \notin {"idle", "returned", "raised"})
  /\ UNCHANGED <<sessVars, hits, lock, watcherVars, envVars, runs, now, resolveVars, callVars, libVars>>

\* The latest time the clock can show: every wait of the session has a timeout
MaxTime == MaxRuns * (MaxDuration + JoinTimeout * (1 + NumFiles))

\* Time passes while the session thread is blocked in a wait or a join
SessionBlocked ==
  \/ spc = "wait" /\ ~EventWaitDone(stop, waitDeadline)
  \/ spc = "join" /\ ~JoinDone(idx, joinDeadline)

Tick ==
  /\ SessionBlocked
  /\ now < MaxTime
  /\ now' = now + 1
  /\ UNCHANGED <<sessVars, sharedVars, watcherVars, envVars, stopVars, resolveVars, callVars, libVars>>

SessionStep ==
  \/ RunClearHits
  \/ RunReset
  \/ RunCreateThreads
  \/ RunStartThread
  \/ RunWaitReturn
  \/ RunSetStop
  \/ RunJoinReturn
  \/ RunReturn

\* ------------------------------------------------------ the watcher threads
\* Where a watcher goes when its loop ends or an exception leaves the with/try
\* block: _watch_journal runs its finally clause, _tail_file closes the file
AfterLoopNoFinally(w) == "exited"
AfterLoop(w) == IF w = Journal THEN "finally" ELSE "exited"

\* The line just read is classified: _matches, and _record when it is noteworthy
Classify(w, line) ==
  IF Matches(line) # NoKeyword
    THEN /\ wline' = [wline EXCEPT ![w] = line]
         /\ nmatch' = [nmatch EXCEPT ![w] = @ + 1]
         /\ obs' = [obs EXCEPT ![w] = IF stop THEN @ ELSE nmatch[w] + 1]
         /\ wpc' = [wpc EXCEPT ![w] = "record"]
    ELSE /\ wpc' = [wpc EXCEPT ![w] = "check"]
         /\ UNCHANGED <<wline, nmatch, obs>>

\* A _watch_journal whose Popen lies inside the try of its finally clause
AfterPopenFailsTeardown == "finally"

\* _watch_journal, lines 174-175: except FileNotFoundError: return, before the
\* try block whose finally clause tears the subprocess down
AfterPopenFails == "exited"

\* _watch_journal, lines 166-175: subprocess.Popen, or FileNotFoundError and return
JournalPopen ==
  /\ wpc[Journal] = "popen"
  /\ IF journalPresent
       THEN /\ proc' = "running"
            /\ wpc' = [wpc EXCEPT ![Journal] = "check"]
       ELSE /\ wpc' = [wpc EXCEPT ![Journal] = AfterPopenFails]
            /\ UNCHANGED proc
  /\ UNCHANGED <<sessVars, sharedVars, wline, whit, wtmp, wpos, nmatch, obs, frags, whist, fh,
                 file, pipe, procSigs, nwritten, journalPresent, ndirfiles, onHitArg, dirents, rootOk, due, stopVars, now, resolveVars, callVars, libVars>>

\* A _tail_file that opens the file without a with block and never closes it
NoClose(h) == h

\* _tail_file, line 149: the with block closes the handle when control leaves
\* it, by the end of the loop or by an exception
WithExit(h) == IF h = "open" THEN "closed" ELSE h

\* _tail_file, line 149: open(path), or OSError and return
FileOpen(w) ==
  /\ w \in FileWatchers
  /\ wpc[w] = "open"
  /\ \/ /\ wpc' = [wpc EXCEPT ![w] = "seek"]
        /\ fh' = [fh EXCEPT ![w] = "open"]
     \/ /\ wpc' = [wpc EXCEPT ![w] = "exited"]
        /\ UNCHANGED fh
  /\ UNCHANGED <<sessVars, sharedVars, wline, whit, wtmp, wpos, nmatch, obs, frags, whist,
                 envVars, stopVars, now, resolveVars, callVars, libVars>>

\* fh.seek(0, os.SEEK_SET): the offset of the start of the text
SeekStart(text) == 0

\* fh.seek(0, os.SEEK_END): the offset of the end of the text
SeekEnd(text) == Len(text)

\* _tail_file, line 151: fh.seek(0, os.SEEK_END)
FileSeek(w) ==
  /\ w \in FileWatchers
  /\ wpc[w] = "seek"
  /\ wpos' = [wpos EXCEPT ![w] = SeekEnd(file[w])]
  /\ whist' = [whist EXCEPT ![w].seekAt = Len(file[w])]
  /\ wpc' = [wpc EXCEPT ![w] = "check"]
  /\ UNCHANGED <<sessVars, sharedVars, wline, whit, wtmp, nmatch, obs, frags, fh,
                 envVars, stopVars, now, resolveVars, callVars, libVars>>

\* lines 152 and 179: while not self._stop.is_set()
CheckStop(w) ==
  /\ wpc[w] = "check"
  /\ wpc' = [wpc EXCEPT ![w] = IF stop THEN AfterLoop(w) ELSE "read"]
  /\ fh' = [fh EXCEPT ![w] = IF stop THEN WithExit(@) ELSE @]
  /\ UNCHANGED <<sessVars, sharedVars, wline, whit, wtmp, wpos, nmatch, obs, frags, whist,
                 envVars, stopVars, now, resolveVars, callVars, libVars>>

\* _tail_file, lines 153-160: fh.readline(); a line is classified, no data sleeps
FileRead(w) ==
  /\ w \in FileWatchers
  /\ wpc[w] = "read"
  /\ LET line == ReadLine(file[w], wpos[w])
     IN IF line = <<>>
          THEN /\ wpc' = [wpc EXCEPT ![w] = "sleep"]
               /\ whist' = [whist EXCEPT ![w].lateSleeps = IF stop THEN @ + 1 ELSE @]
               /\ UNCHANGED <<wline, nmatch, obs, wpos, frags>>
          ELSE /\ wpos' = [wpos EXCEPT ![w] = LineEnd(file[w], wpos[w])]
               /\ whist' = [whist EXCEPT ![w].lateLines = IF stop THEN @ + 1 ELSE @]
               /\ frags' = frags \cup {<<w, wpos[w], LineEnd(file[w], wpos[w]),
                                          Matches(line) # NoKeyword>>}
               /\ Classify(w, line)
  /\ UNCHANGED <<sessVars, sharedVars, whit, wtmp, fh, envVars, stopVars, now, resolveVars, callVars, libVars>>

\* The sleep of a loop that tests the stop signal only after a line
FileSleepThenRead(w) ==
  /\ w \in FileWatchers
  /\ wpc[w] = "sleep"
  /\ wpc' = [wpc EXCEPT ![w] = "read"]
  /\ UNCHANGED <<sessVars, sharedVars, wline, whit, wtmp, wpos, nmatch, obs, frags, whist, fh,
                 envVars, stopVars, now, resolveVars, callVars, libVars>>

\* _tail_file, line 160: time.sleep(0.25) is over
FileSleep(w) ==
  /\ w \in FileWatchers
  /\ wpc[w] = "sleep"
  /\ wpc' = [wpc EXCEPT ![w] = "check"]
  /\ UNCHANGED <<sessVars, sharedVars, wline, whit, wtmp, wpos, nmatch, obs, frags, whist, fh,
                 envVars, stopVars, now, resolveVars, callVars, libVars>>

\* _watch_journal, lines 180-185: proc.stdout.readline() blocks until the pipe
\* holds a line or is closed; no line ends the loop
JournalRead ==
  /\ wpc[Journal] = "read"
  /\ \/ /\ pipe # <<>>
        /\ pipe' = Tail(pipe)
        /\ Classify(Journal, Head(pipe))
     \/ /\ pipe = <<>>
        /\ proc # "running"
        /\ wpc' = [wpc EXCEPT ![Journal] = AfterLoop(Journal)]
        /\ UNCHANGED <<pipe, wline, nmatch, obs>>
  /\ UNCHANGED <<sessVars, sharedVars, whit, wtmp, wpos, frags, whist, fh, file, proc, procSigs,
                 nwritten, journalPresent, ndirfiles, onHitArg, dirents, rootOk, due, stopVars, now, resolveVars, callVars, libVars>>

\* A read error that takes the whole process down: every started thread ends
ReadRaisesEndsAll(w) ==
  /\ wpc[w] = "read"
  /\ wpc' = [v \in Watchers |-> IF wpc[v] = "new" THEN "new" ELSE "exited"]
  /\ UNCHANGED <<sessVars, sharedVars, wline, whit, wtmp, wpos, nmatch, obs, frags, whist, fh,
                 envVars, stopVars, now, resolveVars, callVars, libVars>>

\* readline raises (a read or decoding error): the exception leaves the loop
ReadRaises(w) ==
  /\ wpc[w] = "read"
  /\ wpc' = [wpc EXCEPT ![w] = AfterLoop(w)]
  /\ fh' = [fh EXCEPT ![w] = WithExit(@)]
  /\ UNCHANGED <<sessVars, sharedVars, wline, whit, wtmp, wpos, nmatch, obs, frags, whist,
                 envVars, stopVars, now, resolveVars, callVars, libVars>>

\* _record, line 109: hit = ScoutHit(...), stamped with the current time
RecordCreate(w) ==
  /\ wpc[w] = "record"
  /\ whit' = [whit EXCEPT ![w] = ScoutHit(w, wline[w], Matches(wline[w]), nmatch[w])]
  /\ wline' = [wline EXCEPT ![w] = <<>>]
  /\ wpc' = [wpc EXCEPT ![w] = "lock"]
  /\ UNCHANGED <<sessVars, sharedVars, wtmp, wpos, nmatch, obs, frags, whist, fh,
                 envVars, stopVars, now, resolveVars, callVars, libVars>>

\* _record, lines 110-111: the lock is acquired and the append reads the list
RecordAcquire(w) ==
  /\ wpc[w] = "lock"
  /\ LockFree(w)
  /\ lock' = w
  /\ wtmp' = [wtmp EXCEPT ![w] = hits]
  /\ wpc' = [wpc EXCEPT ![w] = "append"]
  /\ UNCHANGED <<sessVars, stop, hits, wline, whit, wpos, nmatch, obs, frags, whist, fh,
                 envVars, stopVars, now, resolveVars, callVars, libVars>>

\* A _record whose with block also holds the call of the live callback
LockKeptForCallback(w) == IF onHit THEN w ELSE NoOwner

\* _record, lines 110-111: the with self._lock block ends after the append
LockAfterAppend(w) == NoOwner

\* A _record when run has returned the collection itself instead of a copy:
\* the append shows in the report
RecordAppendAliased(w) ==
  /\ wpc[w] = "append"
  /\ hits' = ListAppend(wtmp[w], whit[w])
  /\ report' = IF runs > 0 \/ spc = "returned" THEN hits' ELSE report
  /\ lock' = NoOwner
  /\ wtmp' = [wtmp EXCEPT ![w] = <<>>]
  /\ whit' = [whit EXCEPT ![w] = NoHit]
  /\ wpc' = [wpc EXCEPT ![w] = IF onHit THEN "callback" ELSE "check"]
  /\ UNCHANGED <<duration, onHit, spc, idx, nfiles, waitDeadline, joinDeadline, returnAt,
                 stop, wline, wpos, nmatch, obs, frags, whist, fh,
                 envVars, stopVars, now, resolveVars, callVars, libVars>>

\* _record, lines 111-112: the append writes the list and the lock is released
RecordAppend(w) ==
  /\ wpc[w] = "append"
  /\ hits' = ListAppend(wtmp[w], whit[w])
  /\ lock' = LockAfterAppend(w)
  /\ wtmp' = [wtmp EXCEPT ![w] = <<>>]
  /\ whit' = [whit EXCEPT ![w] = NoHit]
  /\ wpc' = [wpc EXCEPT ![w] = IF onHit THEN "callback" ELSE "check"]
  /\ UNCHANGED <<sessVars, stop, wline, wpos, nmatch, obs, frags, whist, fh,
                 envVars, stopVars, now, resolveVars, callVars, libVars>>

\* A _record that lets the exception of the callback end the thread
AfterCallbackUncaught(raised) == IF raised THEN "exited" ELSE "check"

\* _record, lines 113-116: try: self._on_hit(hit) / except Exception: pass;
\* either way _record returns to the loop of its watcher
AfterCallback(raised) == "check"

\* _record, lines 112-116: self._on_hit(hit) returns, or raises and is swallowed
RecordCallback(w) ==
  /\ wpc[w] = "callback"
  /\ \E raised \in BOOLEAN : wpc' = [wpc EXCEPT ![w] = AfterCallback(raised)]
  /\ UNCHANGED <<sessVars, sharedVars, wline, whit, wtmp, wpos, nmatch, obs, frags, whist, fh,
                 envVars, stopVars, now, resolveVars, callVars, libVars>>

\* _watch_journal, line 187: proc.terminate()
JournalTerminate ==
  /\ wpc[Journal] = "finally"
  /\ procSigs' = Append(procSigs, "TERM")
  /\ proc' = IF proc = "running" THEN "terminating" ELSE proc
  /\ wpc' = [wpc EXCEPT ![Journal] = "wait"]
  /\ UNCHANGED <<sessVars, sharedVars, wline, whit, wtmp, wpos, nmatch, obs, frags, whist, fh,
                 file, pipe, nwritten, journalPresent, ndirfiles, onHitArg, dirents, rootOk, due, stopVars, now, resolveVars, callVars, libVars>>

\* _watch_journal, lines 188-190: proc.wait(timeout=3) returns, or TimeoutExpired
JournalWait ==
  /\ wpc[Journal] = "wait"
  /\ \/ /\ proc = "exited"
        /\ proc' = "reaped"
        /\ wpc' = [wpc EXCEPT ![Journal] = "exited"]
     \/ /\ proc = "terminating"
        /\ wpc' = [wpc EXCEPT ![Journal] = "kill"]
        /\ UNCHANGED proc
  /\ UNCHANGED <<sessVars, sharedVars, wline, whit, wtmp, wpos, nmatch, obs, frags, whist, fh,
                 file, pipe, procSigs, nwritten, journalPresent, ndirfiles, onHitArg, dirents, rootOk, due, stopVars, now, resolveVars, callVars, libVars>>

\* _watch_journal, line 191: proc.kill()
JournalKill ==
  /\ wpc[Journal] = "kill"
  /\ procSigs' = Append(procSigs, "KILL")
  /\ proc' = IF proc = "terminating" THEN "killed" ELSE proc
  /\ wpc' = [wpc EXCEPT ![Journal] = "exited"]
  /\ UNCHANGED <<sessVars, sharedVars, wline, whit, wtmp, wpos, nmatch, obs, frags, whist, fh,
                 file, pipe, nwritten, journalPresent, ndirfiles, onHitArg, dirents, rootOk, due, stopVars, now, resolveVars, callVars, libVars>>

WatcherStep(w) ==
  \/ FileOpen(w)
  \/ FileSeek(w)
  \/ CheckStop(w)
  \/ FileRead(w)
  \/ FileSleep(w)
  \/ ReadRaises(w)
  \/ RecordCreate(w)
  \/ RecordAcquire(w)
  \/ RecordAppend(w)
  \/ RecordCallback(w)

JournalStep ==
  \/ JournalPopen
  \/ JournalRead
  \/ JournalTerminate
  \/ JournalWait
  \/ JournalKill

\* --------------------------------------------------------- the environment
\* The complete lines other programs write during a session: noteworthy ones
WholeLines == {<<"2024", "ERROR", "disk", "Failed", "NL">>}

\* The eligible log files of log_dir, numbered like the threads that tail them
LogFiles == 2..(1 + ndirfiles)

RECURSIVE SumTo(_, _)
SumTo(f, n) == IF n = 0 THEN 0 ELSE f[n] + SumTo(f, n - 1)

\* The lines written so far, over all sources
LinesWritten == SumTo(nwritten, 1 + NumFiles)

\* The watcher of file f is in the loop of _tail_file
Polling(f) == wpc[f] \in {"check", "read", "sleep", "record", "lock", "append", "callback"}

\* A program appends one complete line to a log file
WriteLine(f) ==
  /\ f \in LogFiles
  /\ LinesWritten < MaxLines
  /\ \E l \in WholeLines : file' = [file EXCEPT ![f] = @ \o l]
  /\ nwritten' = [nwritten EXCEPT ![f] = @ + 1]
  /\ due' = [due EXCEPT ![f] = IF Polling(f) /\ ~stop THEN @ + 1 ELSE @]
  /\ UNCHANGED <<sessVars, sharedVars, watcherVars, pipe, proc, procSigs, journalPresent,
                 ndirfiles, onHitArg, dirents, rootOk, stopVars, now, resolveVars, callVars, libVars>>

\* journalctl -f prints one line
JournalEmit ==
  /\ proc = "running"
  /\ LinesWritten < MaxLines
  /\ \E l \in WholeLines : pipe' = Append(pipe, l)
  /\ nwritten' = [nwritten EXCEPT ![Journal] = @ + 1]
  /\ UNCHANGED <<sessVars, sharedVars, watcherVars, file, proc, procSigs, journalPresent,
                 ndirfiles, onHitArg, dirents, rootOk, due, stopVars, now, resolveVars, callVars, libVars>>

\* journalctl exits, by itself or on the terminate signal
JournalExits ==
  /\ proc \in {"running", "terminating"}
  /\ proc' = "exited"
  /\ UNCHANGED <<sessVars, sharedVars, watcherVars, file, pipe, procSigs, nwritten,
                 journalPresent, ndirfiles, onHitArg, dirents, rootOk, due, stopVars, now, resolveVars, callVars, libVars>>

\* The words and the line terminator a program may write
Tokens == {"ERR", "x", "NL"}

\* A program appends text to a log file, a piece at a time: a line may reach
\* the file in one write or in several
WriteToken(f) ==
  /\ f \in LogFiles
  /\ Len(file[f]) < MaxFileLen
  /\ \E t \in Tokens : file' = [file EXCEPT ![f] = Append(@, t)]
  /\ UNCHANGED <<sessVars, sharedVars, watcherVars, pipe, proc, procSigs, nwritten,
                 journalPresent, ndirfiles, onHitArg, dirents, rootOk, due, stopVars, now, resolveVars, callVars, libVars>>

EnvStep ==
  \/ \E f \in FileWatchers : WriteLine(f)
  \/ JournalEmit
  \/ JournalExits

\* ------------------------------------------------------- the specification
\* The steps of a watcher whose source stays quiet
QuietWatcherStep(w) ==
  \/ FileOpen(w)
  \/ FileSeek(w)
  \/ CheckStop(w)
  \/ FileRead(w)
  \/ FileSleep(w)
  \/ ReadRaises(w)

\* A session over quiet logs
Next ==
  \/ SessionStep
  \/ StopCall
  \/ Tick
  \/ \E w \in Watchers : QuietWatcherStep(w)
  \/ JournalStep
  \/ JournalExits

Spec == Init /\ [][Next]_vars

\* The session thread is scheduled and time passes; nothing is assumed of the
\* watchers, which may block or hang anywhere
FairSpec == Spec /\ WF_vars(SessionStep) /\ WF_vars(Tick)

\* The steps of the journal watcher's thread
JournalThreadStep ==
  \/ JournalStep
  \/ CheckStop(Journal)

\* The session thread and the journal watcher's thread are scheduled and time
\* passes; the journal may stay quiet and journalctl may run on, and a read
\* error is not bound to happen
FairJournalSpec ==
  Spec /\ WF_vars(SessionStep) /\ WF_vars(Tick) /\ WF_vars(JournalThreadStep)

\* A session with the journal and one log file, both written to, that ends
\* when the duration is over
AggInit ==
  /\ ScoutInit
  /\ ResolveIdle
  /\ CallIdle
  /\ duration = 1
  /\ journalPresent = TRUE
  /\ HostDir(TRUE, 1)
  /\ onHitArg = TRUE

AggNext ==
  \/ SessionStep
  \/ Tick
  \/ \E w \in Watchers : WatcherStep(w)
  \/ JournalStep
  \/ EnvStep

AggSpec == AggInit /\ [][AggNext]_vars

\* ---------------------------------------------------------- rule resolution
\* needle in hay, for strings given letter by letter
Contains(needle, hay) ==
  \E i \in 0..(Len(hay) - Len(needle)) : SubSeq(hay, i + 1, i + Len(needle)) = needle

\* re.compile(pattern) succeeds: a pattern with an unclosed "(" raises re.error
PatternCompiles(pattern) == \A i \in DOMAIN pattern : pattern[i] # "("

\* re.search(pattern, raw, re.IGNORECASE) of a compiled pattern of letters and
\* ".", which stands for any letter
ReSearch(pattern, raw) ==
  \E i \in 0..(Len(raw) - Len(pattern)) :
     \A k \in DOMAIN pattern :
        pattern[k] = "." \/ Lower(pattern[k]) = Lower(raw[i + k])

\* The rule with its levels compared as they are written
RuleMatchesCaseSensitive(rule, source, raw, level) ==
  IF rule.match_source # <<>> /\ ~Contains(LowerStr(rule.match_source), LowerStr(source))
    THEN FALSE
  ELSE IF rule.match_levels # <<>>
          /\ \A i \in DOMAIN rule.match_levels : rule.match_levels[i] # level
    THEN FALSE
  ELSE IF rule.match_pattern # <<>>
    THEN IF ~PatternCompiles(rule.match_pattern) THEN FALSE
         ELSE ReSearch(rule.match_pattern, raw)
  ELSE TRUE

\* The rule with an except clause that lets a pattern that does not compile pass
RuleMatchesFailOpen(rule, source, raw, level) ==
  IF rule.match_source # <<>> /\ ~Contains(LowerStr(rule.match_source), LowerStr(source))
    THEN FALSE
  ELSE IF rule.match_levels # <<>>
          /\ \A i \in DOMAIN rule.match_levels : Lower(rule.match_levels[i]) # Lower(level)
    THEN FALSE
  ELSE IF rule.match_pattern # <<>>
    THEN IF ~PatternCompiles(rule.match_pattern) THEN TRUE
         ELSE ReSearch(rule.match_pattern, raw)
  ELSE TRUE

\* InstructionRule.matches
RuleMatches(rule, source, raw, level) ==
  IF rule.match_source # <<>> /\ ~Contains(LowerStr(rule.match_source), LowerStr(source))
    THEN FALSE
  ELSE IF rule.match_levels # <<>>
          /\ \A i \in DOMAIN rule.match_levels : Lower(rule.match_levels[i]) # Lower(level)
    THEN FALSE
  ELSE IF rule.match_pattern # <<>>
    THEN IF ~PatternCompiles(rule.match_pattern) THEN FALSE
         ELSE ReSearch(rule.match_pattern, raw)
  ELSE TRUE

\* Template.resolve_instruction: the loop over instruction_rules from rule i on
RECURSIVE ResolveFrom(_, _, _, _, _)
ResolveFrom(rs, i, source, raw, level) ==
  IF i > Len(rs) THEN ""
  ELSE IF RuleMatches(rs[i], source, raw, level) THEN rs[i].instruction
  ELSE ResolveFrom(rs, i + 1, source, raw, level)

\* The loop run from the last rule to the first
RECURSIVE ResolveBackFrom(_, _, _, _, _)
ResolveBackFrom(rs, i, source, raw, level) ==
  IF i < 1 THEN ""
  ELSE IF RuleMatches(rs[i], source, raw, level) THEN rs[i].instruction
  ELSE ResolveBackFrom(rs, i - 1, source, raw, level)

ResolveLastMatch(rs, source, raw, level) == ResolveBackFrom(rs, Len(rs), source, raw, level)
ResolveInstruction(rs, source, raw, level) == ResolveFrom(rs, 1, source, raw, level)

\* A caller resolves the instruction of an entry
ResolveCall ==
  /\ rpc = "ready"
  /\ result' = ResolveInstruction(rules, entry.source, entry.raw, entry.level)
  /\ rpc' = "done"
  /\ UNCHANGED <<rules, entry, sessVars, sharedVars, watcherVars, envVars, stopVars, now, callVars, libVars>>

\* A caller asks each rule of the template whether it matches the entry
MatchCall ==
  /\ rpc # "idle"
  /\ "matches" \notin called
  /\ ruleMatched' =
       [i \in DOMAIN rules |-> RuleMatches(rules[i], entry.source, entry.raw, entry.level)]
  /\ called' = called \cup {"matches"}
  /\ UNCHANGED <<sessVars, sharedVars, watcherVars, envVars, stopVars, now, resolveVars,
                 hasTemplate, callLine, loglm, parsedLevel, matchedKeyword, discovered, libVars>>

\* The conditions a user can give a rule, and the entries of the collectors
RuleSources == {<<>>, <<"G">>}
RulePatterns == {<<>>, <<"b">>, <<"(">>, <<"a", ".">>}
RuleLevels == {<<>>, <<"err", "CRIT">>}
Conditions ==
  [match_source : RuleSources, match_pattern : RulePatterns, match_levels : RuleLevels]
InstructionTexts == <<"I1", "I2", "I3", "I4">>
EntrySources == {<<"g", "p">>, <<"n">>}
EntryRaws == {<<"A", "b">>, <<"x">>}
EntryLevels == {"crit", "ERR", "info"}

\* The rule lists of up to MaxRules rules; the rule at position i carries the
\* i-th instruction text, so that a result names the rule it came from
RuleLists ==
  UNION {{[i \in 1..n |-> [instruction |-> InstructionTexts[i],
                           match_source |-> c[i].match_source,
                           match_pattern |-> c[i].match_pattern,
                           match_levels |-> c[i].match_levels]] :
            c \in [1..n -> Conditions]} : n \in 0..MaxRules}

ResolveInit ==
  /\ ScoutInit
  /\ duration = 1
  /\ journalPresent = FALSE
  /\ HostDir(TRUE, 0)
  /\ onHitArg = FALSE
  /\ CallIdle
  /\ rules \in RuleLists
  /\ entry \in [source : EntrySources, raw : EntryRaws, level : EntryLevels]
  /\ result = ""
  /\ rpc = "ready"

ResolveNext ==
  \/ ResolveCall
  \/ MatchCall

ResolveSpec == ResolveInit /\ [][ResolveNext]_vars

\* ------------------------------------------------------------- formatting
\* log_formatter.INSTRUCTION_MAP and _DEFAULT_INSTRUCTION
InstructionMap ==
  [k \in {"error", "err", "crit", "alert", "emerg", "warning", "warn"} |->
     IF k \in {"warning", "warn"}
       THEN "Analyze the potential issue described in this log entry."
       ELSE "Interpret the error message in the given log."]
DefaultInstruction == "Parse and summarize the information in this log entry."

\* dict.get(entry.level.lower(), _DEFAULT_INSTRUCTION)
LevelInstruction(lv) ==
  IF Lower(lv) \in DOMAIN InstructionMap THEN InstructionMap[Lower(lv)] ELSE DefaultInstruction

\* The entry formatted with the level table asked before the rules
EntryToLoglmLevelFirst(tpl, rs, e) ==
  LET resolved == IF tpl THEN ResolveInstruction(rs, e.source, e.raw, e.level) ELSE ""
  IN [Instruction |-> IF Lower(e.level) \in DOMAIN InstructionMap
                        THEN InstructionMap[Lower(e.level)]
                        ELSE IF resolved = "" THEN DefaultInstruction ELSE resolved,
      Input |-> e.raw,
      Response |-> ""]

\* entry_to_loglm(entry, template); tpl says whether a template is passed
EntryToLoglm(tpl, rs, e) ==
  LET resolved == IF tpl THEN ResolveInstruction(rs, e.source, e.raw, e.level) ELSE ""
  IN [Instruction |-> IF resolved = "" THEN LevelInstruction(e.level) ELSE resolved,
      Input |-> e.raw,
      Response |-> ""]

\* A caller formats the entry
FormatCall ==
  /\ rpc # "idle"
  /\ "entry_to_loglm" \notin called
  /\ loglm' = EntryToLoglm(hasTemplate, rules, entry)
  /\ called' = called \cup {"entry_to_loglm"}
  /\ UNCHANGED <<sessVars, sharedVars, watcherVars, envVars, stopVars, now, resolveVars,
                 hasTemplate, callLine, ruleMatched, parsedLevel, matchedKeyword, discovered, libVars>>

\* The rules of the templates to format with: conditions on pattern and levels,
\* and an instruction text that may have been left empty in the stored file
FormatConditions == {c \in Conditions : c.match_source = <<>>}
FormatRuleLists ==
  UNION {{[i \in 1..n |-> [instruction |-> t[i],
                           match_source |-> c[i].match_source,
                           match_pattern |-> c[i].match_pattern,
                           match_levels |-> c[i].match_levels]] :
            c \in [1..n -> FormatConditions],
            t \in {x \in [1..n -> {"", "I1", "I2", "I3", "I4"}] :
                     \A i \in 1..n : x[i] \in {"", InstructionTexts[i]}}} : n \in 0..MaxRules}
FormatLevels == EntryLevels \cup {"WARN"}

\* An entry to format, with a template or without one
FormatInit ==
  /\ ScoutInit
  /\ duration = 1
  /\ journalPresent = FALSE
  /\ HostDir(TRUE, 0)
  /\ onHitArg = FALSE
  /\ CallIdle
  /\ rules \in FormatRuleLists
  /\ entry \in [source : EntrySources, raw : EntryRaws, level : FormatLevels]
  /\ result = ""
  /\ rpc = "ready"

\* format_entries passes the template or None to entry_to_loglm
FormatTemplate ==
  /\ rpc = "ready"
  /\ called = {}
  /\ ~hasTemplate
  /\ hasTemplate' = TRUE
  /\ UNCHANGED <<sessVars, sharedVars, watcherVars, envVars, stopVars, now, resolveVars,
                 callLine, ruleMatched, loglm, parsedLevel, matchedKeyword, discovered, called, libVars>>

FormatNext ==
  \/ FormatTemplate
  \/ FormatCall

FormatSpec == FormatInit /\ [][FormatNext]_vars

\* --------------------------------------------------------- classification
\* A collector asks for the level of a line
ParseLevelCall ==
  /\ "_parse_level" \notin called
  /\ parsedLevel' = ParseLevel(callLine)
  /\ called' = called \cup {"_parse_level"}
  /\ UNCHANGED <<sessVars, sharedVars, watcherVars, envVars, stopVars, now, resolveVars,
                 hasTemplate, callLine, ruleMatched, loglm, matchedKeyword, discovered, libVars>>

\* A watcher asks for the keyword of a line
MatchesCall ==
  /\ "_matches" \notin called
  /\ matchedKeyword' = Matches(callLine)
  /\ called' = called \cup {"_matches"}
  /\ UNCHANGED <<sessVars, sharedVars, watcherVars, envVars, stopVars, now, resolveVars,
                 hasTemplate, callLine, ruleMatched, loglm, parsedLevel, discovered, libVars>>

\* The general, gpu and nas collectors each ask for the level of the same line
CollectorsParseLevelCall ==
  /\ "collectors" \notin called
  /\ levels' = [general |-> ParseLevel(callLine), gpu |-> GpuParseLevel(callLine),
                nas |-> NasParseLevel(callLine)]
  /\ called' = called \cup {"collectors"}
  /\ UNCHANGED <<sessVars, sharedVars, watcherVars, envVars, stopVars, now, resolveVars,
                 hasTemplate, callLine, ruleMatched, loglm, parsedLevel, matchedKeyword,
                 discovered, grouped, templates, disk, lastOp, csrc, cfiles, centries>>

\* The words of the lines to classify: level words, keywords, both or neither,
\* in several letter cases
Words == {"ERROR", "Failed", "fail", "Warning", "crit", "DEBUG", "disk", "errors"}
Lines == UNION {[1..n -> Words] : n \in 0..MaxWords}

ClassifyInit ==
  /\ ScoutInit
  /\ ResolveIdle
  /\ duration = 1
  /\ journalPresent = FALSE
  /\ HostDir(TRUE, 0)
  /\ onHitArg = FALSE
  /\ hasTemplate = FALSE
  /\ callLine \in Lines
  /\ ruleMatched = <<>>
  /\ loglm = NoLoglm
  /\ parsedLevel = ""
  /\ matchedKeyword = ""
  /\ discovered = [raised |-> FALSE, paths |-> {}]
  /\ called = {}
  /\ LibIdle

ClassifyNext ==
  \/ ParseLevelCall
  \/ MatchesCall
  \/ CollectorsParseLevelCall

ClassifySpec == ClassifyInit /\ [][ClassifyNext]_vars

\* -------------------------------------------------------- discovery calls
\* A caller lists the log files of log_dir
DiscoverCall ==
  /\ "_discover_log_files" \notin called
  /\ discovered' = Discover(dirents, rootOk)
  /\ called' = called \cup {"_discover_log_files"}
  /\ UNCHANGED <<sessVars, sharedVars, watcherVars, envVars, stopVars, now, resolveVars,
                 hasTemplate, callLine, ruleMatched, loglm, parsedLevel, matchedKeyword, libVars>>

\* The entries a directory tree may hold: plain, rotated, compressed and
\* blocked names, in log_dir or in a sub-directory of it; files that can or
\* cannot be read and decoded, and directories
EntryNames == {<<"syslog">>, <<"syslog", ".1">>, <<"btmp">>, <<"kern", ".gz">>}
EntryParents == {"root", "nginx"}
DirEntries ==
  [name : EntryNames, parent : EntryParents, isFile : {TRUE}, readable : BOOLEAN,
   probe : {"ok", "decode_error", "os_error"}]
    \cup [name : EntryNames, parent : EntryParents, isFile : {FALSE}, readable : {TRUE},
          probe : {"os_error"}]

\* The trees of up to n entries; a directory holds a name once
RECURSIVE Trees(_)
Trees(n) ==
  IF n = 0 THEN {{}}
  ELSE LET T == Trees(n - 1)
       IN T \cup {t \cup {e} : t \in T,
                   e \in DirEntries}

NamedOnce(t) == \A a, b \in t : (a.name = b.name /\ a.parent = b.parent) => a = b

DiscoverInit ==
  /\ ScoutInit
  /\ ResolveIdle
  /\ CallIdle
  /\ duration = 1
  /\ journalPresent = FALSE
  /\ onHitArg = FALSE
  /\ rootOk \in BOOLEAN
  /\ dirents \in {t \in Trees(MaxEntries) : NamedOnce(t)}
  /\ ndirfiles = Cardinality(Discover(dirents, rootOk).paths)

DiscoverNext == DiscoverCall

DiscoverSpec == DiscoverInit /\ [][DiscoverNext]_vars

\* A session on a host without journalctl over one log file that programs
\* write to piece by piece
TailInit ==
  /\ ScoutInit
  /\ ResolveIdle
  /\ CallIdle
  /\ duration = 1
  /\ journalPresent = FALSE
  /\ HostDir(TRUE, 1)
  /\ onHitArg = FALSE

TailNext ==
  \/ SessionStep
  \/ Tick
  \/ JournalPopen
  \/ \E w \in FileWatchers : (FileOpen(w) \/ FileSeek(w) \/ CheckStop(w) \/ FileRead(w)
                              \/ FileSleep(w) \/ RecordCreate(w) \/ RecordAcquire(w)
                              \/ RecordAppend(w))
  \/ \E f \in FileWatchers : WriteToken(f)

TailSpec == TailInit /\ [][TailNext]_vars

\* A session on a host without journalctl over one log file to which programs
\* append complete lines; the watcher may fail at any read
FileInit ==
  /\ ScoutInit
  /\ ResolveIdle
  /\ CallIdle
  /\ duration = 1
  /\ journalPresent = FALSE
  /\ HostDir(TRUE, 1)
  /\ onHitArg = FALSE

FileNext ==
  \/ SessionStep
  \/ Tick
  \/ JournalPopen
  \/ \E w \in FileWatchers : (FileOpen(w) \/ FileSeek(w) \/ CheckStop(w) \/ FileRead(w)
                              \/ FileSleep(w) \/ ReadRaises(w) \/ RecordCreate(w)
                              \/ RecordAcquire(w) \/ RecordAppend(w))
  \/ \E f \in FileWatchers : WriteLine(f)

FileSpec == FileInit /\ [][FileNext]_vars

\* The caller calls run again on the same LogScout after it has returned. The
\* threads of the new call are numbered like those of the earlier one, so the
\* call is followed only when the threads it will start have none of the
\* earlier call still alive under their number
\* The locals of the call that has returned and of the threads that have
\* ended are gone, and the histories of an ended thread begin anew
Ended(w) == wpc[w] \in {"new", "exited"}

Fresh(f, init) == [w \in Watchers |-> IF Ended(w) THEN init ELSE f[w]]

RunAgain ==
  /\ spc = "returned"
  /\ runs < MaxRuns - 1
  /\ \A w \in 1..(1 + ndirfiles) : Ended(w)
  /\ spc' = "idle"
  /\ runs' = runs + 1
  /\ idx' = 0 /\ nfiles' = 0 /\ waitDeadline' = 0 /\ joinDeadline' = 0
  /\ returnAt' = -1 /\ stopAt' = -1 /\ stopReq' = FALSE
  /\ wpc' = Fresh(wpc, "new")
  /\ wline' = Fresh(wline, <<>>)
  /\ whit' = Fresh(whit, NoHit)
  /\ wtmp' = Fresh(wtmp, <<>>)
  /\ wpos' = Fresh(wpos, 0)
  /\ nmatch' = Fresh(nmatch, 0)
  /\ obs' = Fresh(obs, 0)
  /\ due' = Fresh(due, 0)
  /\ whist' = Fresh(whist, [seekAt |-> 0, lateLines |-> 0, lateSleeps |-> 0])
  /\ fh' = Fresh(fh, "none")
  /\ frags' = {p \in frags : ~Ended(p[1])}
  /\ UNCHANGED <<duration, onHit, report, sharedVars, file, pipe, proc, procSigs, nwritten,
                 journalPresent, ndirfiles, onHitArg, dirents, rootOk, stopCalls, now,
                 resolveVars, callVars, libVars>>

\* Between two calls of run the log files are removed from log_dir; a thread
\* that has one of them open keeps its handle
LogsRemoved ==
  /\ spc = "returned"
  /\ ndirfiles > 0
  /\ dirents' = {e \in dirents : ~(e.parent = "root" /\ Eligible(e))}
  /\ ndirfiles' = Cardinality(Discover(dirents', rootOk).paths)
  /\ UNCHANGED <<sessVars, sharedVars, watcherVars, file, pipe, proc, procSigs, nwritten,
                 journalPresent, onHitArg, rootOk, due, stopVars, now, resolveVars, callVars, libVars>>

\* ------------------------------------------------------- the template store
\* json.dump of a str: the quote and the backslash are written behind a backslash
RECURSIVE JsonEscape(_)
JsonEscape(str) ==
  IF str = <<>> THEN <<>>
  ELSE (IF Head(str) \in {"\"", "\\"} THEN <<"\\", Head(str)>> ELSE <<Head(str)>>)
         \o JsonEscape(Tail(str))

\* json.load of a string: the character behind a backslash is taken as it is
RECURSIVE JsonUnescape(_)
JsonUnescape(txt) ==
  IF txt = <<>> THEN <<>>
  ELSE IF Head(txt) = "\\" /\ Len(txt) >= 2
         THEN <<txt[2]>> \o JsonUnescape(Tail(Tail(txt)))
         ELSE <<Head(txt)>> \o JsonUnescape(Tail(txt))

\* A json.load that gives the arrays back in reverse
LoadArrayReversed(a) == [i \in DOMAIN a |-> a[Len(a) + 1 - i]]

\* json.load of an array: a list of the elements in the order of the file
LoadArray(a) == a

\* _persist, line 147: asdict of a rule as json.dump writes it
DumpRule(r) ==
  [instruction |-> r.instruction,
   match_source |-> JsonEscape(r.match_source),
   match_pattern |-> JsonEscape(r.match_pattern),
   match_levels |-> r.match_levels]

DumpSource(c) ==
  [name |-> JsonEscape(c.name), path_glob |-> JsonEscape(c.path_glob),
   filter_pattern |-> JsonEscape(c.filter_pattern), default_level |-> c.default_level]

DumpTemplate(t) ==
  [name |-> JsonEscape(t.name),
   description |-> JsonEscape(t.description),
   instruction_rules |-> [i \in DOMAIN t.instruction_rules |-> DumpRule(t.instruction_rules[i])],
   custom_sources |-> [i \in DOMAIN t.custom_sources |-> DumpSource(t.custom_sources[i])]]

\* _persist, lines 144-147: the file is written anew with every template
Persist(ts) == [exists |-> TRUE, doc |-> [i \in DOMAIN ts |-> DumpTemplate(ts[i])]]

\* _from_dict, line 151: InstructionRule(**r), the absent fields at their defaults
LoadRule(o) ==
  [instruction |-> o.instruction,
   match_source |-> IF "match_source" \in DOMAIN o THEN JsonUnescape(o.match_source) ELSE <<>>,
   match_pattern |-> IF "match_pattern" \in DOMAIN o THEN JsonUnescape(o.match_pattern) ELSE <<>>,
   match_levels |-> IF "match_levels" \in DOMAIN o THEN LoadArray(o.match_levels) ELSE <<>>]

\* _from_dict, line 152: CustomSource(**s)
LoadSource(o) ==
  [name |-> JsonUnescape(o.name), path_glob |-> JsonUnescape(o.path_glob),
   filter_pattern |-> IF "filter_pattern" \in DOMAIN o THEN JsonUnescape(o.filter_pattern)
                      ELSE <<>>,
   default_level |-> IF "default_level" \in DOMAIN o THEN o.default_level ELSE "info"]

\* _from_dict, lines 150-158
FromDict(o) ==
  LET rs == IF "instruction_rules" \in DOMAIN o THEN LoadArray(o.instruction_rules) ELSE <<>>
      cs == IF "custom_sources" \in DOMAIN o THEN LoadArray(o.custom_sources) ELSE <<>>
  IN [name |-> JsonUnescape(o.name),
      description |-> IF "description" \in DOMAIN o THEN JsonUnescape(o.description) ELSE <<>>,
      instruction_rules |-> [i \in DOMAIN rs |-> LoadRule(rs[i])],
      custom_sources |-> [i \in DOMAIN cs |-> LoadSource(cs[i])]]

\* _from_dict raises: a required key is missing (KeyError, TypeError)
FromDictRaises(o) ==
  \/ "name" \notin DOMAIN o
  \/ /\ "instruction_rules" \in DOMAIN o
     /\ \E i \in DOMAIN o.instruction_rules : "instruction" \notin DOMAIN o.instruction_rules[i]
  \/ /\ "custom_sources" \in DOMAIN o
     /\ \E i \in DOMAIN o.custom_sources :
          {"name", "path_glob"} \ DOMAIN o.custom_sources[i] # {}

\* _load, lines 133-142: no file or any exception gives the empty list
Load(d) ==
  IF ~d.exists THEN <<>>
  ELSE LET data == LoadArray(d.doc)
       IN IF \E i \in DOMAIN data : FromDictRaises(data[i]) THEN <<>>
          ELSE [i \in DOMAIN data |-> FromDict(data[i])]

\* A save_template that appends without removing the template of the same name
KeepAll(ts, name) == ts

\* save_template, line 119, and delete, line 125: the templates of another name
Without(ts, name) == SelectSeq(ts, LAMBDA t : t.name # name)

\* TemplateStore.get, lines 111-115: the first template of the name, or None
NoTemplate == [name |-> <<>>, description |-> <<>>, instruction_rules |-> <<>>,
               custom_sources |-> <<>>, none |-> TRUE]

Get(ts, name) ==
  LET I == {i \in DOMAIN ts : ts[i].name = name}
  IN IF I = {} THEN NoTemplate ELSE ts[CHOOSE i \in I : \A j \in I : i <= j]

\* TemplateStore.save_template, lines 117-121
SaveTemplate(t) ==
  /\ templates' = Append(Without(templates, t.name), t)
  /\ disk' = Persist(templates')
  /\ lastOp' = [op |-> "save", arg |-> t, ret |-> FALSE]
  /\ UNCHANGED <<sessVars, sharedVars, watcherVars, envVars, stopVars, now, resolveVars,
                 callVars, grouped, customVars>>

\* delete, lines 126-127: the file is written only when a template was removed
PersistIfRemoved(removed, ts, d) == IF removed THEN Persist(ts) ELSE d

\* TemplateStore.delete, lines 123-129
Delete(name) ==
  /\ templates' = Without(templates, name)
  /\ LET removed == Len(templates') < Len(templates)
     IN /\ disk' = PersistIfRemoved(removed, templates', disk)
        /\ lastOp' = [op |-> "delete", arg |-> name, ret |-> removed]
  /\ UNCHANGED <<sessVars, sharedVars, watcherVars, envVars, stopVars, now, resolveVars,
                 callVars, grouped, customVars>>

\* The program is started again: TemplateStore(path) loads the file
Reopen ==
  /\ lastOp.op # "open"
  /\ templates' = Load(disk)
  /\ lastOp' = [op |-> "open", arg |-> <<>>, ret |-> FALSE]
  /\ UNCHANGED <<sessVars, sharedVars, watcherVars, envVars, stopVars, now, resolveVars,
                 callVars, grouped, disk, customVars>>

\* The rules and sources of the templates a user builds: a rule list and the
\* same rules in the other order, a pattern with a quote and a backslash
RuleA ==
  [instruction |-> "I1", match_source |-> <<"G">>, match_pattern |-> <<"a", ".">>,
   match_levels |-> <<"err", "CRIT">>]
RuleB ==
  [instruction |-> "I2", match_source |-> <<>>, match_pattern |-> <<>>, match_levels |-> <<>>]
RuleQ ==
  [instruction |-> "I3", match_source |-> <<>>, match_pattern |-> <<"\\", "\"", "b">>,
   match_levels |-> <<"info">>]
StoreRuleLists == {<<>>, <<RuleA, RuleB>>, <<RuleB, RuleA>>, <<RuleQ, RuleB>>}
SourceS ==
  [name |-> <<"s">>, path_glob |-> <<"x">>, filter_pattern |-> <<"(">>, default_level |-> "info"]
TemplateNames == <<<<"a">>, <<"a", "\"">>, <<"b">>, <<"c">>>>
NamesUsed == {TemplateNames[i] : i \in 1..MaxNames}
SampleTemplates ==
  [name : NamesUsed, description : {<<>>}, instruction_rules : StoreRuleLists,
   custom_sources : {<<>>, <<SourceS>>}]

\* A store on a path without a file, as after the first start of the program
StoreInit ==
  /\ ScoutInit
  /\ ResolveIdle
  /\ CallIdle
  /\ duration = 1
  /\ journalPresent = FALSE
  /\ HostDir(TRUE, 0)
  /\ onHitArg = FALSE

StoreNext ==
  \/ \E t \in SampleTemplates : SaveTemplate(t)
  \/ \E n \in NamesUsed : Delete(n)
  \/ Reopen

StoreSpec == StoreInit /\ [][StoreNext]_vars

\* ------------------------------------------------------- custom sources
\* collect, line 27: at least this many lines of a file are read
MinLineCount == 500

\* collect, line 27: line_count = max(500, hours * 100)
LineCount(hours) == IF hours * 100 > MinLineCount THEN hours * 100 ELSE MinLineCount

\* _collect_source, line 45: readlines()[-line_count:]
LastLines(lines, line_count) ==
  IF Len(lines) <= line_count THEN lines
  ELSE SubSeq(lines, Len(lines) - line_count + 1, Len(lines))

\* _collect_source, lines 33-38: the compiled filter; None when no filter is
\* set and when re.compile raises re.error
NoPattern == <<>>
CompiledOrNone(src) ==
  IF src.filter_pattern # <<>> /\ PatternCompiles(src.filter_pattern)
    THEN src.filter_pattern
  ELSE NoPattern

\* _collect_source, lines 47-51: the stripped line is kept
KeepsLine(pattern, line) ==
  /\ Strip(line) # <<>>
  /\ pattern = NoPattern \/ ReSearch(pattern, Strip(line))

\* _collect_source, lines 52-59
CustomEntry(src, line) ==
  [source |-> <<"custom:">> \o src.name, message |-> Strip(line), raw |-> Strip(line),
   level |-> src.default_level]

\* _collect_source, lines 43-61 for one path: open raising OSError gives no
\* entry of that path
FileEntries(src, pattern, f, line_count) ==
  IF ~f.readable THEN <<>>
  ELSE LET kept == SelectSeq(LastLines(f.lines, line_count), LAMBDA l : KeepsLine(pattern, l))
       IN [i \in DOMAIN kept |-> CustomEntry(src, kept[i])]

\* _collect_source, lines 41-62: the loop over the sorted paths
RECURSIVE PathEntries(_, _, _, _, _)
PathEntries(src, pattern, files, line_count, i) ==
  IF i > Len(files) THEN <<>>
  ELSE FileEntries(src, pattern, files[i], line_count)
         \o PathEntries(src, pattern, files, line_count, i + 1)

\* CustomSourceCollector._collect_source
CollectSource(src, files, line_count) ==
  PathEntries(src, CompiledOrNone(src), files, line_count, 1)

\* collect(hours) of a collector with one source
CollectCall ==
  /\ "collect" \notin called
  /\ \E hours \in 1..MaxHours : centries' = CollectSource(csrc, cfiles, LineCount(hours))
  /\ called' = called \cup {"collect"}
  /\ UNCHANGED <<sessVars, sharedVars, watcherVars, envVars, stopVars, now, resolveVars,
                 hasTemplate, callLine, ruleMatched, loglm, parsedLevel, matchedKeyword,
                 discovered, grouped, templates, disk, lastOp, levels, csrc, cfiles>>

\* The lines of the files of a source: a blank line, a line the filter "a"
\* finds in the other letter case, and a line it does not find
FileLines == {<<"NL">>, <<"A", "b", "NL">>, <<"b", "NL">>}

\* The files the glob names: unreadable, or readable with up to MaxLines lines
GlobFiles ==
  {[readable |-> FALSE, lines |-> <<>>]}
    \cup {[readable |-> TRUE, lines |-> ls] :
            ls \in UNION {[1..n -> FileLines] : n \in 0..MaxLines}}

\* The sources a user defines: without a filter, with a filter that compiles,
\* and with filters that do not
CustomSources ==
  [name : {<<"s">>}, path_glob : {<<"*.log">>},
   filter_pattern : {<<>>, <<"a">>, <<"(">>, <<"(", "a">>}, default_level : {"info", "warning"}]

CustomInit ==
  /\ ScoutInit
  /\ ResolveIdle
  /\ duration = 1
  /\ journalPresent = FALSE
  /\ HostDir(TRUE, 0)
  /\ onHitArg = FALSE
  /\ hasTemplate = FALSE
  /\ callLine = <<>>
  /\ ruleMatched = <<>>
  /\ loglm = NoLoglm
  /\ parsedLevel = ""
  /\ matchedKeyword = ""
  /\ discovered = [raised |-> FALSE, paths |-> {}]
  /\ called = {}
  /\ grouped = <<>>
  /\ templates = <<>>
  /\ disk = NoFile
  /\ lastOp = NoOp
  /\ levels = NoLevels
  /\ csrc \in CustomSources
  /\ cfiles \in UNION {[1..n -> GlobFiles] : n \in 0..MaxPaths}
  /\ centries = <<>>

CustomNext == CollectCall

CustomSpec == CustomInit /\ [][CustomNext]_vars

\* A grouping whose loop assigns a fresh list to the key of every hit
GroupedAssign(g, hit) == [s \in DOMAIN g \cup {hit.source} |-> IF s = hit.source THEN <<hit>> ELSE g[s]]

\* ScoutResult.sources, line 48: grouped.setdefault(hit.source, []).append(hit)
GroupedAppend(g, hit) ==
  [s \in DOMAIN g \cup {hit.source} |->
     IF s = hit.source
       THEN (IF s \in DOMAIN g THEN Append(g[s], hit) ELSE <<hit>>)
       ELSE g[s]]

\* ScoutResult.sources, lines 46-49: grouped = {}, the loop over self.hits in
\* list order, return grouped
RECURSIVE SourcesFrom(_, _, _)
SourcesFrom(g, l, i) ==
  IF i > Len(l) THEN g ELSE SourcesFrom(GroupedAppend(g, l[i]), l, i + 1)

Sources(l) == SourcesFrom(<<>>, l, 1)

\* ScoutResult.total, line 53: len(self.hits)
Total(l) == Len(l)

\* A caller reads the sources property of a ScoutResult
SourcesCall ==
  /\ "sources" \notin called
  /\ grouped' = Sources(report)
  /\ called' = called \cup {"sources"}
  /\ UNCHANGED <<sessVars, sharedVars, watcherVars, envVars, stopVars, now, resolveVars,
                 hasTemplate, callLine, ruleMatched, loglm, parsedLevel, matchedKeyword,
                 discovered, templates, disk, lastOp, customVars>>

\* The hits a ScoutResult may hold: of the journal or of a file, with one of
\* two lines; a list may hold equal hits
SampleHits ==
  {ScoutHit(w, line, Matches(line), 0) : w \in Watchers, line \in {<<"ERROR", "disk">>, <<"Failed">>}}

RECURSIVE HitLists(_)
HitLists(n) ==
  IF n = 0 THEN {<<>>}
  ELSE LET L == HitLists(n - 1)
       IN L \cup {Append(l, h) : l \in {k \in L : Len(k) = n - 1}, h \in SampleHits}

\* A ScoutResult with up to MaxHits hits whose sources property is read
GroupInit ==
  /\ duration = 1 /\ stop = FALSE /\ hits = <<>> /\ lock = NoOwner /\ onHit = FALSE
  /\ spc = "returned" /\ idx = 0 /\ nfiles = 0 /\ waitDeadline = 0 /\ joinDeadline = 0
  /\ now = 0
  /\ report \in HitLists(MaxHits)
  /\ wpc = [w \in Watchers |-> "new"]
  /\ wline = [w \in Watchers |-> <<>>]
  /\ whit = [w \in Watchers |-> NoHit]
  /\ wtmp = [w \in Watchers |-> <<>>]
  /\ wpos = [w \in Watchers |-> 0]
  /\ file = [w \in FileWatchers |-> <<>>]
  /\ pipe = <<>> /\ proc = "none" /\ procSigs = <<>>
  /\ nwritten = [w \in Watchers |-> 0]
  /\ nmatch = [w \in Watchers |-> 0]
  /\ obs = [w \in Watchers |-> 0]
  /\ stopCalls = 0 /\ stopAt = -1 /\ returnAt = 0 /\ frags = {}
  /\ due = [w \in Watchers |-> 0]
  /\ whist = [w \in Watchers |-> [seekAt |-> 0, lateLines |-> 0, lateSleeps |-> 0]]
  /\ fh = [w \in Watchers |-> "none"]
  /\ runs = 0
  /\ stopReq = FALSE
  /\ journalPresent = FALSE /\ HostDir(TRUE, 0) /\ onHitArg = FALSE
  /\ ResolveIdle
  /\ CallIdle

GroupNext == SourcesCall

GroupSpec == GroupInit /\ [][GroupNext]_vars

\* Consecutive calls of run on one LogScout, on a host without journalctl
\* whose log file is being appended to; a call follows when the file watcher
\* of the call before has ended
RecallNext ==
  \/ FileNext
  \/ RunAgain

RecallSpec == FileInit /\ [][RecallNext]_vars

\* Consecutive calls of run on one LogScout, on a host without journalctl
\* whose log file is being appended to and may be removed between the calls
RerunNext ==
  \/ FileNext
  \/ RunAgain
  \/ LogsRemoved

RerunSpec == FileInit /\ [][RerunNext]_vars

\* The same session with the session thread scheduled and time passing
FairFileSpec == FileSpec /\ WF_vars(SessionStep) /\ WF_vars(Tick)

\* ------------------------------------------------------------------ claims
\* The state of the scout and of its threads, without the history of stop() calls
progVars == <<sessVars, sharedVars, watcherVars, envVars, now>>

\* C2: under fair scheduling of the session thread a call of run returns, also
\* when watchers never exit; the threads are joined once each, in list order,
\* and a thread whose join is over is not joined again
C2_RunReturns ==
  /\ (spc = "reset") ~> (spc = "returned")
  /\ [][spc = "join" /\ idx' # idx => (idx' = idx + 1 \/ spc' = "snapshot")]_vars

\* C2 witness: run has returned while a watcher it started has not exited
C2_Witness == spc = "returned" /\ \E w \in Threads : wpc[w] # "exited"

\* C3: when stop() is called during the wait, run returns at most one join
\* timeout per thread later, whatever the duration
C3_StopEndsWait ==
  (spc = "returned" /\ stopAt >= 0) => returnAt - stopAt <= JoinTimeout * (1 + nfiles)

\* C3 witness: stop() came during the wait and run returned before the duration
\* was over
C3_Witness == spc = "returned" /\ stopAt >= 0 /\ returnAt < waitDeadline

\* C4: a call of stop() sets the stop signal, and a call that follows another
\* call of stop() changes nothing of the scout
C4_StopIdempotent ==
  [][StopCall => (stop' /\ (stopCalls >= 1 => UNCHANGED progVars))]_vars

\* C4 witness: stop() was called twice before run started
C4_Witness == spc = "idle" /\ stopCalls = 2 /\ stop

\* C5: when the journal watcher has exited after spawning journalctl, it has
\* called terminate, the process no longer runs, and unless the process exited
\* within the wait it has called kill after terminate
C5_JournalTornDown ==
  (wpc[Journal] = "exited" /\ proc # "none") =>
     /\ procSigs # <<>>
     /\ procSigs[1] = "TERM"
     /\ proc \notin {"running", "terminating"}
     /\ proc # "reaped" => procSigs = <<"TERM", "KILL">>

\* C5 witness: the watcher exited after terminate and kill
C5_Witness == wpc[Journal] = "exited" /\ procSigs = <<"TERM", "KILL">>

\* C7: run returns at most one join timeout after the end of the wait
C7_SingleGracePeriod ==
  spc = "returned" => returnAt <= waitDeadline + JoinTimeout
\* The number of _record calls of watcher w whose append is complete
Appended(w) ==
  IF wpc[w] \in {"record", "lock", "append"} THEN nmatch[w] - 1 ELSE nmatch[w]

\* The positions of the k-th hit of watcher w in a list of hits
HitsOf(l, w, k) == {i \in DOMAIN l : l[i].source = w /\ l[i].seq = k}

\* C1: every completed append is in the hit collection exactly once, and the
\* collection holds nothing else: N threads that have appended M hits each
\* leave exactly N*M hits
C1_NoLostOrDuplicateAppend ==
  /\ \A w \in Watchers : \A k \in 1..Appended(w) : Cardinality(HitsOf(hits, w, k)) = 1
  /\ Len(hits) = SumTo([w \in Watchers |-> Appended(w)], 1 + NumFiles)
  /\ \A m \in 1..MaxLines :
       (\A w \in Threads : Appended(w) = m) => Len(hits) = Cardinality(Threads) * m

\* C1 witness: two watcher threads (the journal's and a file's) have each
\* completed an append and the collection holds both hits
C1_Witness ==
  /\ Cardinality(Threads) = 2
  /\ \A w \in Threads : Appended(w) = 1
  /\ Len(hits) = 2

\* C6: the report holds every hit a watcher matched before the stop signal was set
C6_NoObservedHitMissing ==
  spc = "returned" =>
    \A w \in Watchers : \A k \in 1..obs[w] : HitsOf(report, w, k) # {}

\* C8: the hits of the report are in the order of their timestamps
C8_ReportChronological ==
  \A i, j \in DOMAIN report : i < j => report[i].timestamp <= report[j].timestamp

\* C8 as amended: two hits of the same watcher are in the report in the order
\* in which that watcher created them, with non-decreasing timestamps
C8_ChronologicalPerWatcher ==
  \A i, j \in DOMAIN report :
     (i < j /\ report[i].source = report[j].source) =>
        /\ report[i].seq < report[j].seq
        /\ report[i].timestamp <= report[j].timestamp

\* C8 witness: the report holds two hits of one watcher, created at different times
C8_Witness ==
  \E i, j \in DOMAIN report :
     /\ i < j
     /\ report[i].source = report[j].source
     /\ report[i].timestamp < report[j].timestamp
\* The pieces of file w that the watcher handed to the classifier and that
\* stop in the middle of a line whose rest was written later
SplitPieces(w) ==
  {p \in frags : p[1] = w /\ file[w][p[3]] # "NL" /\ Len(file[w]) > p[3]}

\* Two positions of file w lie in the same line: no terminator from a to b - 1
SameLine(w, a, b) == \A i \in a..(b - 1) : file[w][i] # "NL"

\* C9: a watcher classifies every line once and as a whole: no piece handed to
\* the classifier stops inside a line, and no line yields two hits
C9_LinesClassifiedWhole ==
  \A w \in FileWatchers :
     /\ SplitPieces(w) = {}
     /\ \A p, q \in frags :
          (p[1] = w /\ q[1] = w /\ p[3] <= q[2] /\ p[4] /\ q[4] /\ p # q)
             => ~SameLine(w, p[3], q[3])
\* A present condition of a rule holds for the entry
SourceHolds(rule) ==
  rule.match_source = <<>> \/ Contains(LowerStr(rule.match_source), LowerStr(entry.source))
LevelHolds(rule) ==
  rule.match_levels = <<>>
    \/ \E i \in DOMAIN rule.match_levels : Lower(rule.match_levels[i]) = Lower(entry.level)
PatternHolds(rule) ==
  rule.match_pattern = <<>>
    \/ (PatternCompiles(rule.match_pattern) /\ ReSearch(rule.match_pattern, entry.raw))

\* The positions of the rules whose conditions all hold for the entry
Holding == {i \in DOMAIN rules : SourceHolds(rules[i]) /\ LevelHolds(rules[i]) /\ PatternHolds(rules[i])}

\* The number of conditions a rule states
Specificity(rule) ==
  (IF rule.match_source = <<>> THEN 0 ELSE 1) + (IF rule.match_pattern = <<>> THEN 0 ELSE 1)
    + (IF rule.match_levels = <<>> THEN 0 ELSE 1)

C11_MatchesIffAllPresentHold ==
  "matches" \in called =>
    \A i \in DOMAIN rules :
       /\ ruleMatched[i]
            = (SourceHolds(rules[i]) /\ LevelHolds(rules[i]) /\ PatternHolds(rules[i]))
       /\ (rules[i].match_source = <<>> /\ rules[i].match_pattern = <<>>
             /\ rules[i].match_levels = <<>>) => ruleMatched[i]
       /\ (rules[i].match_source = <<>> /\ rules[i].match_pattern = <<>>
             /\ rules[i].match_levels = <<"err", "CRIT">>)
            => (ruleMatched[i] = (entry.level \in {"err", "ERR", "crit", "CRIT"}))

\* C11 witness: a rule whose only condition is its levels, written err and
\* CRIT, has matched an entry of level crit and another has rejected one of
\* level info
C11_Witness ==
  /\ "matches" \in called
  /\ Len(rules) = 2
  /\ rules[1].match_source = <<>> /\ rules[1].match_pattern = <<>>
  /\ rules[1].match_levels = <<"err", "CRIT">>
  /\ entry.level = "crit"
  /\ ruleMatched[1]
  /\ rules[2].match_source # <<>>
  /\ ~ruleMatched[2]

FirstHolding == IF Holding = {} THEN 0 ELSE CHOOSE i \in Holding : \A j \in Holding : i <= j

\* The instruction the level of the entry stands for in the table of defaults
TableText ==
  IF Lower(entry.level) \in {"error", "err", "crit", "alert", "emerg"}
    THEN "Interpret the error message in the given log."
  ELSE IF Lower(entry.level) \in {"warning", "warn"}
    THEN "Analyze the potential issue described in this log entry."
  ELSE "Parse and summarize the information in this log entry."

\* C13 as stated: whenever a rule of the template matches the entry the
\* Instruction is the text of the first matching rule, never a default; when
\* no rule matches or no template is given it is the text of the level in the
\* table, else the generic default
C13_RuleBeforeDefaults ==
  "entry_to_loglm" \in called =>
    loglm.Instruction =
      IF hasTemplate /\ FirstHolding # 0 THEN rules[FirstHolding].instruction ELSE TableText

\* C13 amended: the text of the first matching rule is the Instruction when
\* that text is not empty; when no rule matches, no template is given or the
\* text of the first matching rule is empty, the Instruction is the text of the
\* level in the table, else the generic default
C13_NonEmptyRuleBeforeDefaults ==
  "entry_to_loglm" \in called =>
    /\ loglm.Instruction =
         IF hasTemplate /\ FirstHolding # 0 /\ rules[FirstHolding].instruction # ""
           THEN rules[FirstHolding].instruction
           ELSE TableText
    /\ loglm.Input = entry.raw

\* C13 witness: the entry has a level of the table, two rules match it and the
\* Instruction is the text of the first of them
C13_Witness ==
  /\ "entry_to_loglm" \in called
  /\ hasTemplate
  /\ entry.level = "ERR"
  /\ Holding = {1, 2}
  /\ rules[1].instruction = "I1"
  /\ loglm.Instruction = "I1"

\* The positions of the words of the line that are, in lower case, in set S
WordsIn(S) == {i \in DOMAIN callLine : Lower(callLine[i]) \in S}

\* C14: _parse_level returns a lower-case member of the closed set of levels:
\* info when no word of the line is a level in any letter case, and otherwise
\* the leftmost level word of the line in lower case
C14_ParseLevelLeftmostOrInfo ==
  "_parse_level" \in called =>
    LET L == WordsIn({"emerg", "alert", "crit", "err", "warning", "notice", "info", "debug"})
    IN /\ parsedLevel \in {"emerg", "alert", "crit", "err", "warning", "notice", "info", "debug"}
       /\ L = {} => parsedLevel = "info"
       /\ L # {} => \E i \in L : (\A j \in L : i <= j) /\ parsedLevel = Lower(callLine[i])

\* C14 witness: the line holds two level words, the first in capitals, and the
\* first was returned in lower case
C14_Witness ==
  /\ "_parse_level" \in called
  /\ callLine = <<"DEBUG", "crit">>
  /\ parsedLevel = "debug"

\* C15 as stated: _matches returns none or the leftmost keyword of the line in
\* lower case, a member of the set of fifteen keywords that has failed and
\* failure and not fail
C15_KeywordOfFifteen ==
  "_matches" \in called =>
    matchedKeyword \in {NoKeyword, "emerg", "alert", "critical", "crit", "error", "err",
                        "failed", "failure", "panic", "oops", "oom", "segfault", "timeout",
                        "refused", "denied"}

\* C15 amended: _matches returns none when no word of the line is a keyword,
\* and otherwise the leftmost keyword of the line in lower case, a member of
\* the set of the fifteen keywords and of fail
C15_KeywordLeftmostOfSixteen ==
  "_matches" \in called =>
    LET K == WordsIn({"emerg", "alert", "critical", "crit", "error", "err", "fail", "failed",
                      "failure", "panic", "oops", "oom", "segfault", "timeout", "refused",
                      "denied"})
    IN /\ K = {} => matchedKeyword = NoKeyword
       /\ K # {} => \E i \in K : (\A j \in K : i <= j) /\ matchedKeyword = Lower(callLine[i])

\* C15 witness: the line holds two keywords and the left one was returned in
\* lower case
C15_Witness ==
  /\ "_matches" \in called
  /\ callLine = <<"ERROR", "Failed">>
  /\ matchedKeyword = "error"

\* C16: the report of a session holds exactly one hit for every complete line
\* that was appended to a discovered file while its watcher was in its poll
\* loop and before the stop signal; the keyword of the hit is the leftmost
\* keyword of the line and its source is the file
C16_AppendedLineReportedOnce ==
  spc = "returned" =>
    \A f \in FileWatchers : \A k \in 1..due[f] :
       /\ Cardinality(HitsOf(report, f, k)) = 1
       /\ \A i \in HitsOf(report, f, k) :
            /\ report[i].keyword = "error"
            /\ report[i].line = <<"2024", "ERROR", "disk", "Failed">>

\* The entries of the tree that a returned path names
EntriesAt(p) == {e \in dirents : e.parent = p.dir /\ e.name = p.name}

\* C17: _discover_log_files returns only direct children of log_dir that are
\* regular files: no blocked name, no name with a rotated or compressed
\* ending, no directory, no entry of a sub-directory, no file that cannot be
\* read or whose first characters do not decode as text
C17_DiscoveryExcludes ==
  "_discover_log_files" \in called =>
    \A p \in discovered.paths :
       /\ p.dir = "root"
       /\ p.name \notin {<<"btmp">>, <<"wtmp">>, <<"lastlog">>, <<"faillog">>}
       /\ p.name[Len(p.name)] \notin {".gz", ".xz", ".bz2", ".zst", ".1", ".2", ".3", ".4"}
       /\ EntriesAt(p) # {}
       /\ \A e \in EntriesAt(p) : e.isFile /\ e.readable /\ e.probe = "ok"

\* C17 witness: log_dir holds a log file and a readable rotated file of text,
\* and the discovery has returned the log file alone
C17_Witness ==
  /\ "_discover_log_files" \in called
  /\ rootOk
  /\ \E e, x \in dirents :
       /\ e.parent = "root" /\ x.parent = "root"
       /\ x.name = <<"syslog", ".1">> /\ x.isFile /\ x.readable /\ x.probe = "ok"
       /\ discovered.paths = {Path(e)}

\* C18: when log_dir is missing or cannot be listed the discovery raises
\* nothing and finds no file, run starts the journal watcher and no file
\* watcher, and run returns a report
C18_MissingRootJournalOnly ==
  /\ [](~rootOk =>
         /\ spc # "raised"
         /\ spc \in {"start", "wait", "setstop", "join", "snapshot", "returned"} => nfiles = 0
         /\ \A f \in FileWatchers : wpc[f] = "new"
         /\ spc \in {"wait", "setstop", "join", "snapshot", "returned"} => wpc[Journal] # "new")
  /\ (~rootOk) ~> (spc = "returned")

\* C18 witness: log_dir holds files but cannot be listed, the journal watcher
\* has run and exited, and run has returned
C18_Witness ==
  /\ ~rootOk
  /\ \E e \in dirents : e.parent = "root" /\ Eligible(e)
  /\ spc = "returned"
  /\ wpc[Journal] = "exited"
  /\ \A f \in FileWatchers : wpc[f] = "new"

\* C20: once the stop signal is set, a journal watcher that is in its read
\* loop leaves the loop and terminates journalctl, also when journalctl prints
\* no further line: it does not stay in the read with journalctl running
C20_JournalWatcherLeavesOnStop ==
  (stop /\ wpc[Journal] \in {"check", "read"})
    ~> (wpc[Journal] \notin {"check", "read"} /\ proc # "running")

\* C21: the teardown of journalctl goes from running over terminating to
\* reaped: the terminate signal is sent first, the kill signal only after the
\* wait for the exit has timed out and never before terminate, and the
\* subprocess has been waited for when the watcher exits
C21_TeardownEndsReaped ==
  /\ procSigs \in {<<>>, <<"TERM">>, <<"TERM", "KILL">>}
  /\ wpc[Journal] \in {"wait", "kill"} => procSigs = <<"TERM">>
  /\ (wpc[Journal] = "exited" /\ proc # "none") => proc = "reaped"

\* C22: once the stop signal is set a file watcher finishes at most the
\* iteration in progress: it reads at most one more line or begins at most one
\* more sleep, records at most one more hit, its read never blocks, and its
\* next test of the signal ends the loop
C22_StopEndsPollLoop ==
  /\ [](\A f \in FileWatchers :
          /\ whist[f].lateLines + whist[f].lateSleeps <= 1
          /\ nmatch[f] - obs[f] <= 1
          /\ wpc[f] = "read" => ENABLED FileRead(f))
  /\ [][\A f \in FileWatchers :
          (stop /\ wpc[f] = "check" /\ wpc'[f] # "check") => wpc'[f] = "exited"]_vars

\* C22 witness: a file watcher that was past the test of its loop when the
\* signal was set has read one more line, recorded its hit and left the loop
C22_Witness ==
  \E f \in FileWatchers :
     /\ stop
     /\ wpc[f] = "exited"
     /\ whist[f].lateLines = 1
     /\ nmatch[f] - obs[f] = 1
     /\ HitsOf(hits, f, nmatch[f]) # {}

\* The hits of source w in a list of hits
HitsFrom(l, w) == {i \in DOMAIN l : l[i].source = w}

\* The line terminators of file w after offset a
TerminatorsAfter(w, a) == {i \in DOMAIN file[w] : i > a /\ file[w][i] = "NL"}

\* C23: a file watcher hands to the classifier only text that lies after the
\* end of the file at the time of its seek, and the collection holds no more
\* hits of a file than lines were appended to it after that seek
C23_NoHitForOldContent ==
  \A f \in FileWatchers :
     /\ \A p \in frags : p[1] = f => p[2] >= whist[f].seekAt
     /\ wpc[f] \notin {"new", "open", "seek"} => wpos[f] >= whist[f].seekAt
     /\ Cardinality(HitsFrom(hits, f)) <= Cardinality(TerminatorsAfter(f, whist[f].seekAt))

\* C23 witness: the file held a noteworthy line when the watcher sought its
\* end, a second line was appended, and the collection holds one hit of the file
C23_Witness ==
  \E f \in FileWatchers :
     /\ whist[f].seekAt > 0
     /\ Cardinality(TerminatorsAfter(f, 0)) = 2
     /\ Cardinality(HitsFrom(hits, f)) = 1
     /\ wpc[f] = "check"

\* Two hits of one watcher stand in list l in the order in which the watcher
\* read their lines (seq numbers the noteworthy lines of a watcher as it reads them)
InReadOrder(l) ==
  \A i, j \in DOMAIN l : (l[i].source = l[j].source /\ l[i].seq < l[j].seq) => i < j

\* C24: two hits recorded by the same watcher stand in the hit collection and
\* in the returned report in the order in which that watcher read their lines
C24_PerWatcherReadOrder ==
  /\ InReadOrder(hits)
  /\ InReadOrder(report)

\* C24 witness: run has returned a report with the two hits of the file
\* watcher, the hit of the line read first before the other
C24_Witness ==
  /\ spc = "returned"
  /\ \E f \in FileWatchers :
       /\ Len(report) = 2
       /\ report[1].source = f /\ report[1].seq = 1
       /\ report[2].source = f /\ report[2].seq = 2

\* The threads a call of run has to start: the journal watcher's and one per
\* eligible file of log_dir
ToStart == 1..(1 + ndirfiles)

C26_AppendBeforeCallbackAndSwallow ==
  [][\A w \in Watchers :
       /\ (wpc[w] # "callback" /\ wpc'[w] = "callback") =>
             /\ wpc[w] = "append"
             /\ HitsOf(hits', w, nmatch[w]) # {}
       /\ wpc[w] = "callback" =>
             /\ HitsOf(hits, w, nmatch[w]) # {}
             /\ wpc'[w] \in {"callback", "check"}
             /\ \A k \in 1..nmatch[w] : HitsOf(hits', w, k) # {}
             /\ wpc'[w] = "check" => hits' = hits]_vars

\* C26 witness: a callback is given, it was invoked for the first hit of a
\* watcher, and the watcher went on to append its second hit and invoke the
\* callback for it
C26_Witness ==
  /\ onHit
  /\ \E w \in Watchers :
       /\ wpc[w] = "callback"
       /\ nmatch[w] = 2
       /\ HitsOf(hits, w, 1) # {}
       /\ HitsOf(hits, w, 2) # {}

\* C27: the step in which a file watcher fails (open raises, or a read raises
\* mid-stream) ends that watcher and changes nothing else: the collection, the
\* lock, the stop event, the session and every other watcher are as before, so
\* the others go on recording; and the report that run returns is the whole
\* collection, the hits of a failed watcher included
C27_FailureEndsOnlyThatWatcher ==
  [][/\ \A f \in FileWatchers :
          (wpc[f] \in {"open", "read"} /\ wpc'[f] = "exited") =>
             /\ hits' = hits /\ lock' = lock /\ stop' = stop
             /\ spc' = spc /\ idx' = idx /\ report' = report
             /\ \A v \in Watchers \ {f} :
                  /\ wpc'[v] = wpc[v]
                  /\ wline'[v] = wline[v] /\ whit'[v] = whit[v] /\ nmatch'[v] = nmatch[v]
     /\ (spc # "returned" /\ spc' = "returned") => report' = hits]_vars

\* C27 witness: before stop is set a file watcher has ended, which only a
\* failure does, its hit is in the collection, and the journal watcher is in
\* the middle of appending a hit of its own
C27_Witness ==
  /\ ~stop
  /\ \E f \in FileWatchers :
       /\ wpc[f] = "exited"
       /\ HitsOf(hits, f, 1) # {}
       /\ wpc[Journal] = "append"
       /\ lock = Journal

\* C28: without journalctl the journal watcher goes from its Popen straight to
\* its end in a step that touches nothing else; there is never a subprocess,
\* a signal sent or a hit of the journal, and run comes to return its report
C28_AbsentJournalExitsSilently ==
  /\ [](~journalPresent =>
          /\ wpc[Journal] \in {"new", "popen", "exited"}
          /\ proc = "none" /\ procSigs = <<>> /\ pipe = <<>>
          /\ HitsFrom(hits, Journal) = {} /\ HitsFrom(report, Journal) = {}
          /\ spc # "raised")
  /\ [][(~journalPresent /\ wpc[Journal] = "popen" /\ wpc'[Journal] # "popen") =>
          /\ wpc'[Journal] = "exited"
          /\ hits' = hits /\ stop' = stop /\ lock' = lock /\ spc' = spc
          /\ \A f \in FileWatchers : wpc'[f] = wpc[f] /\ wpos'[f] = wpos[f]]_vars
  /\ (~journalPresent /\ spc = "idle") ~> (spc = "returned")

\* C28 witness: journalctl is absent, the journal watcher has exited, the file
\* watcher has recorded a hit and run has returned it
C28_Witness ==
  /\ ~journalPresent
  /\ spc = "returned"
  /\ wpc[Journal] = "exited"
  /\ proc = "none"
  /\ \E f \in FileWatchers : HitsOf(report, f, 1) # {}

\* C30: the lock of the collection has an owner only while that thread is at
\* its append: a thread that reads, sleeps, polls the stop event or runs the
\* live callback holds no lock, so a thread waiting for the lock waits only
\* for an append
C30_LockOnlyAroundAppend ==
  /\ \A w \in Watchers : lock = w => wpc[w] = "append"
  /\ lock \in Watchers \cup {NoOwner}
  /\ \A w \in Watchers :
       (wpc[w] = "lock" /\ \A v \in Watchers : wpc[v] # "append") => lock = NoOwner

\* C30 witness: one watcher is in the live callback while another one holds
\* the lock for its append
C30_Witness ==
  \E v, w \in Watchers :
     /\ v # w
     /\ wpc[v] = "callback"
     /\ wpc[w] = "append"
     /\ lock = w

\* C29: the stop event goes from set to clear only when no watcher thread that
\* was started is still alive, whichever call of run started it
C29_StopStaysSetWhileWatcherAlive ==
  [][(stop /\ ~stop') => \A w \in Watchers : wpc[w] \in {"new", "exited"}]_vars

\* The sum of the lengths of the groups of g whose keys are in S
RECURSIVE GroupLengths(_, _)
GroupLengths(g, S) ==
  IF S = {} THEN 0
  ELSE LET s == CHOOSE x \in S : TRUE IN Len(g[s]) + GroupLengths(g, S \ {s})

\* C31: the sources of a result are keyed by exactly the sources of its hits,
\* the group of a source is the sub-list of the hits of that source in the
\* order of hits (so every hit is in the group of its own source and in no
\* other), the group lengths add up to total, and reading sources leaves
\* hits as it was
C31_SourcesPartitionsHits ==
  /\ []("sources" \in called =>
          /\ DOMAIN grouped = {report[i].source : i \in DOMAIN report}
          /\ \A s \in DOMAIN grouped :
               grouped[s] = SelectSeq(report, LAMBDA h : h.source = s)
          /\ GroupLengths(grouped, DOMAIN grouped) = Total(report))
  /\ [][report' = report]_vars

\* C31 witness: the sources of a result with three hits, two of one source
\* with a hit of another source between them
C31_Witness ==
  /\ "sources" \in called
  /\ Len(report) = 3
  /\ report[1].source = report[3].source
  /\ report[1].source # report[2].source
  /\ report[1] # report[3]
  /\ Len(grouped[report[1].source]) = 2

\* C32: the report is written by no step but the return of run that creates
\* it: neither the append of a watcher that run has abandoned nor the clear
\* at the start of a later call changes a report that has been returned
C32_ReportIsStableCopy ==
  [][report' # report => (spc = "snapshot" /\ spc' = "returned" /\ report' = hits)]_vars

\* C32 witness: the first call has returned a report with a hit; a later call
\* has cleared the collection and its watcher has appended another hit, and
\* the report of the first call is as it was returned
C32_Witness ==
  /\ runs = 1
  /\ spc = "wait"
  /\ Len(report) = 1
  /\ Len(hits) = 1
  /\ hits[1] # report[1]

\* The entries an instruction is resolved for
AllEntries ==
  [source : EntrySources, raw : EntryRaws \cup {<<"\\", "\"", "b">>}, level : EntryLevels]

\* C33: after save_template(t), a store that loads the file holds a template
\* of t's name whose rule list is t's, rule by rule and field by field in the
\* same order, and that resolves every entry to the instruction t resolves it to
C33_RulesSurviveRoundTrip ==
  lastOp.op = "save" =>
    LET t == lastOp.arg
        l == Get(Load(disk), t.name)
    IN /\ l # NoTemplate
       /\ Len(l.instruction_rules) = Len(t.instruction_rules)
       /\ \A i \in DOMAIN t.instruction_rules :
            /\ l.instruction_rules[i].instruction = t.instruction_rules[i].instruction
            /\ l.instruction_rules[i].match_source = t.instruction_rules[i].match_source
            /\ l.instruction_rules[i].match_pattern = t.instruction_rules[i].match_pattern
            /\ l.instruction_rules[i].match_levels = t.instruction_rules[i].match_levels
       /\ \A e \in AllEntries :
            ResolveInstruction(l.instruction_rules, e.source, e.raw, e.level)
              = ResolveInstruction(t.instruction_rules, e.source, e.raw, e.level)

\* C33 witness: a template is saved whose first rule has a pattern that the
\* file holds in escaped form and whose two rules resolve an entry differently
\* in the other order, and the file holds a second template
C33_Witness ==
  /\ lastOp.op = "save"
  /\ lastOp.arg.instruction_rules = <<RuleQ, RuleB>>
  /\ Len(disk.doc) = 2
  /\ disk.doc[2].instruction_rules[1].match_pattern # RuleQ.match_pattern
  /\ Get(Load(disk), lastOp.arg.name).instruction_rules = <<RuleQ, RuleB>>
  /\ \E e \in AllEntries :
       ResolveInstruction(<<RuleQ, RuleB>>, e.source, e.raw, e.level)
         # ResolveInstruction(<<RuleB, RuleQ>>, e.source, e.raw, e.level)

\* C34: the report a call of run returns holds only hits of the watchers that
\* this call started: the journal watcher and the file watchers of the paths
\* the call discovered
C34_ReportOfThisCallOnly ==
  spc = "returned" => \A i \in DOMAIN report : report[i].source \in 1..(1 + nfiles)

\* C35: once stop() has been called while a call of run is under way, that
\* call does not go into or stay in its wait with the stop event clear: the
\* event is set from the request until run has passed the wait
C35_StopRequestNeverLost ==
  (stopReq /\ spc \in {"reset", "discover", "start", "wait", "setstop"}) => stop

\* C36: a file watcher holds its file open from its open to the end of its
\* loop and on no path after it: when it has exited, by the stop signal or by
\* an exception of a read, its handle is closed or was never opened
C36_ExitedWatcherHoldsNoFile ==
  \A f \in FileWatchers :
     /\ wpc[f] = "exited" => fh[f] \in {"none", "closed"}
     /\ wpc[f] \in {"seek", "check", "read", "sleep", "record", "lock", "append"} =>
          fh[f] = "open"
     /\ wpc[f] \in {"new", "open"} => fh[f] = "none"

\* C36 witness: before stop is set a file watcher that has recorded a hit has
\* exited, which only an exception of a read does, and its handle is closed
C36_Witness ==
  /\ ~stop
  /\ \E f \in FileWatchers :
       /\ wpc[f] = "exited"
       /\ fh[f] = "closed"
       /\ HitsOf(hits, f, 1) # {}

\* The names of the templates of a list
NamesIn(ts) == {ts[i].name : i \in DOMAIN ts}

\* C37: the store holds at most one template per name; after save_template(t)
\* get(t.name) is t; a delete returns true exactly when a template of that
\* name was stored, and then no template of that name is left, and when it
\* returns false it leaves the templates and the file as they were
C37_StoreKeepsOnePerName ==
  /\ [](/\ \A i, j \in DOMAIN templates : templates[i].name = templates[j].name => i = j
        /\ lastOp.op = "save" => Get(templates, lastOp.arg.name) = lastOp.arg)
  /\ [][(lastOp' # lastOp /\ lastOp'.op = "delete") =>
          /\ lastOp'.ret <=> (lastOp'.arg \in NamesIn(templates))
          /\ lastOp'.arg \notin NamesIn(templates')
          /\ \A i \in DOMAIN templates' : \E j \in DOMAIN templates : templates'[i] = templates[j]
          /\ ~lastOp'.ret => (templates' = templates /\ disk' = disk)]_vars

\* C37 witness: with one template stored and persisted, a delete of another
\* name has returned false
C37_Witness ==
  /\ lastOp.op = "delete"
  /\ ~lastOp.ret
  /\ Len(templates) = 1
  /\ lastOp.arg \notin NamesIn(templates)
  /\ disk.exists /\ Len(disk.doc) = 1

\* C38: the _parse_level functions of the general, gpu and nas collectors are
\* equivalent: for every line all three return the same level
C38_ParseLevelsAgree ==
  "collectors" \in called => (levels.general = levels.gpu /\ levels.gpu = levels.nas)

\* C38 witness: the three collectors were asked about a line whose first level
\* word is written with a capital and follows a keyword that is no level, and
\* all three answered warning
C38_Witness ==
  /\ "collectors" \in called
  /\ callLine = <<"ERROR", "Warning">>
  /\ levels = [general |-> "warning", gpu |-> "warning", nas |-> "warning"]

\* C39: a custom source whose filter_pattern is an invalid regular expression
\* fails closed: collecting it contributes no entry, and so none that a valid
\* filter could have excluded; it does not behave as if no filter were set
C39_InvalidFilterFailsClosed ==
  ("collect" \in called /\ csrc.filter_pattern # <<>>
     /\ ~PatternCompiles(csrc.filter_pattern))
    => centries = <<>>

====
